---------------------------- MODULE Spec2Model ----------------------------
(***************************************************************************)
(* A model of the project-board synchronisation engine of signalhound      *)
(* (internal/github/github.go): schema discovery (GetProjectFields), field *)
(* and option resolution, version comparison, cursor-paginated filtered    *)
(* retrieval (GetProjectIssues) and draft-item creation                    *)
(* (CreateDraftIssue).                                                     *)
(*                                                                         *)
(* Text (field names, option labels, the board selector) is a sequence of  *)
(* one-character strings, so that substring search, lower-casing and the   *)
(* version pattern are computed character by character as the Go code      *)
(* does.  A g4.ID is an interface value: NilID is the nil interface (the   *)
(* zero value of an unassigned g4.ID variable), any other value is the     *)
(* string the interface holds; the empty string "" is a value different    *)
(* from NilID.                                                             *)
(***************************************************************************)
EXTENDS Integers, Sequences, FiniteSets, TLC

-----------------------------------------------------------------------------
(* Bounds of the model.                                                    *)

\* the remote schema has at most MaxFields field nodes
MaxFields == 2
\* the remote item collection has at most MaxItems items
MaxItems == 3
\* the caller asks for pages of 1..MaxPerPage items
MaxPerPage == 2
\* compareVersions is applied to all the texts of at most MaxVersionLen characters
\* over VersionChars
MaxVersionLen == 3
\* extractVersion is applied to all the texts of at most MaxTextLen characters over
\* TextChars
MaxTextLen == 4
\* a remote announces a next page without need on at most MaxStalls item queries in
\* a row, unless it does so for ever; one retrieval is followed for MaxQueries remote
\* calls
MaxStalls == 2
MaxQueries == 5
\* the ticker of the TUI fires at most MaxTicks times
MaxTicks == 2
\* a Dashboard has at most MaxTabs tabs in an error state
MaxTabs == 1
\* the clock of the controller advances by TickSeconds, up to MaxClock seconds
TickSeconds == 30
MaxClock == 150

-----------------------------------------------------------------------------
(* Text helpers: strings.ToLower, strings.Contains, strings.Split,         *)
(* strconv.Atoi on sequences of characters.                                *)

UpperChars == <<"A", "B", "C", "D", "E", "F", "G", "H", "I", "J", "K", "L", "M",
                "N", "O", "P", "Q", "R", "S", "T", "U", "V", "W", "X", "Y", "Z">>

LowerChars == <<"a", "b", "c", "d", "e", "f", "g", "h", "i", "j", "k", "l", "m",
                "n", "o", "p", "q", "r", "s", "t", "u", "v", "w", "x", "y", "z">>

LowerOf == [c \in {UpperChars[i] : i \in 1..Len(UpperChars)} |->
               LowerChars[CHOOSE i \in 1..Len(UpperChars) : UpperChars[i] = c]]

LowerChar(c) == IF c \in DOMAIN LowerOf THEN LowerOf[c] ELSE c

\* strings.ToLower
ToLower(s) == [i \in 1..Len(s) |-> LowerChar(s[i])]

\* strings.Contains(s, substr)
Contains(s, substr) ==
    \E i \in 0..(Len(s) - Len(substr)) : SubSeq(s, i + 1, i + Len(substr)) = substr

Digits == <<"0", "1", "2", "3", "4", "5", "6", "7", "8", "9">>

ValueOf == [c \in {Digits[i] : i \in 1..Len(Digits)} |->
               (CHOOSE i \in 1..Len(Digits) : Digits[i] = c) - 1]

IsDigit(c) == c \in DOMAIN ValueOf

DigitVal(c) == ValueOf[c]

\* strconv.Atoi with the error dropped (num, _ = strconv.Atoi(part)): the value of a
\* non-empty run of digits, 0 for anything else
RECURSIVE AtoiDigits(_)
AtoiDigits(s) ==
    IF s = <<>> THEN 0
    ELSE 10 * AtoiDigits(SubSeq(s, 1, Len(s) - 1)) + DigitVal(s[Len(s)])

Atoi(s) ==
    IF s # <<>> /\ \A i \in 1..Len(s) : IsDigit(s[i]) THEN AtoiDigits(s) ELSE 0

\* strings.Split(s, "."): the pieces between the dots (always at least one piece)
RECURSIVE SplitDot(_)
SplitDot(s) ==
    IF \E i \in 1..Len(s) : s[i] = "."
    THEN LET d == CHOOSE i \in 1..Len(s) : s[i] = "." /\ \A j \in 1..(i - 1) : s[j] # "."
         IN  <<SubSeq(s, 1, d - 1)>> \o SplitDot(SubSeq(s, d + 1, Len(s)))
    ELSE <<s>>

-----------------------------------------------------------------------------
(* Version Comparator.                                                     *)

\* the end of the maximal run of digits that starts at p (p - 1 when s[p] is no digit)
RECURSIVE DigitRunEnd(_, _)
DigitRunEnd(s, p) ==
    IF p <= Len(s) /\ IsDigit(s[p]) THEN DigitRunEnd(s, p + 1) ELSE p - 1

\* (\d+)\.(\d+) matches with its first digit at position p
NumMatchAt(s, p) ==
    LET q == DigitRunEnd(s, p)
    IN  /\ q >= p
        /\ q + 2 <= Len(s)
        /\ s[q + 1] = "."
        /\ IsDigit(s[q + 2])

\* v?(\d+)\.(\d+) matches starting at position p
VersionMatchAt(s, p) ==
    \/ NumMatchAt(s, p)
    \/ p <= Len(s) /\ s[p] = "v" /\ NumMatchAt(s, p + 1)

\* a variant that returns the whole match, the "v" included
extractVersionWholeMatch(text) ==
    IF \E p \in 1..Len(text) : VersionMatchAt(text, p)
    THEN LET p == CHOOSE i \in 1..Len(text) :
                      VersionMatchAt(text, i) /\ \A j \in 1..(i - 1) : ~VersionMatchAt(text, j)
             m == IF NumMatchAt(text, p) THEN p ELSE p + 1
             q == DigitRunEnd(text, m)
             r == DigitRunEnd(text, q + 2)
         IN  SubSeq(text, p, r)
    ELSE <<>>

\* extractVersion: the leftmost match of v?(\d+)\.(\d+), printed as "%s.%s" of its two
\* groups; the empty text when there is no match
extractVersion(text) ==
    IF \E p \in 1..Len(text) : VersionMatchAt(text, p)
    THEN LET p == CHOOSE i \in 1..Len(text) :
                      VersionMatchAt(text, i) /\ \A j \in 1..(i - 1) : ~VersionMatchAt(text, j)
             m == IF NumMatchAt(text, p) THEN p ELSE p + 1
             q == DigitRunEnd(text, m)
             r == DigitRunEnd(text, q + 2)
         IN  SubSeq(text, m, q) \o <<".">> \o SubSeq(text, q + 2, r)
    ELSE <<>>

\* compareVersions: 1 if v1 > v2, -1 if v1 < v2, 0 if equal, segment by segment
RECURSIVE CompareFrom(_, _, _, _)
CompareFrom(parts1, parts2, i, maxLen) ==
    IF i > maxLen THEN 0
    ELSE LET num1 == IF i <= Len(parts1) THEN Atoi(parts1[i]) ELSE 0
             num2 == IF i <= Len(parts2) THEN Atoi(parts2[i]) ELSE 0
         IN  IF num1 > num2 THEN 1
             ELSE IF num1 < num2 THEN -1
             ELSE CompareFrom(parts1, parts2, i + 1, maxLen)

\* a variant that compares only the segments both versions have
compareVersionsCommonSegments(v1, v2) ==
    LET parts1 == SplitDot(v1)
        parts2 == SplitDot(v2)
        minLen == IF Len(parts2) < Len(parts1) THEN Len(parts2) ELSE Len(parts1)
    IN  CompareFrom(parts1, parts2, 1, minLen)

compareVersions(v1, v2) ==
    LET parts1 == SplitDot(v1)
        parts2 == SplitDot(v2)
        maxLen == IF Len(parts2) > Len(parts1) THEN Len(parts2) ELSE Len(parts1)
    IN  CompareFrom(parts1, parts2, 1, maxLen)

-----------------------------------------------------------------------------
(* Identifiers (g4.ID is an interface type) and error values.              *)

\* the nil interface: the zero value of a g4.ID variable that was never assigned
NilID == "(nil interface)"

\* fmt.Sprintf("%v", id)
SprintV(id) == IF id = NilID THEN "<nil>" ELSE id

\* fmt.Sprintf("%s", id)
SprintS(id) == IF id = NilID THEN "%!s(<nil>)" ELSE id

\* the comparison id == "" of an interface value with a string constant: true only
\* when the interface holds the string ""; the nil interface is not equal to ""
IsEmptyString(id) == id # NilID /\ id = ""

\* the type assertion optID.(g4.ID): it fails only on the nil interface
AssertsAsID(optID) == optID # NilID

NoErr == "<nil>"
ErrClientNil == "github GraphQL client is nil"
ErrQueryFields == "failed to query project fields: remote error"
ErrGetFields == "failed to get project fields: failed to query project fields: remote error"
ErrNoLatestVersion == "latest version option not found in k8s_release field"
ErrNoFailingStatus == "FAILING status option not found in status field"
ErrQueryIssues == "failed to query project issues: remote error"
ErrCreateDraft == "failed to create draft issue: remote error"

-----------------------------------------------------------------------------
(* Keywords of the resolver.                                               *)

kwK8sRelease == <<"k", "8", "s", " ", "r", "e", "l", "e", "a", "s", "e">>
kwStatus == <<"s", "t", "a", "t", "u", "s">>
kwView == <<"v", "i", "e", "w">>
kwBoard == <<"b", "o", "a", "r", "d">>
kwDrafting == <<"d", "r", "a", "f", "t", "i", "n", "g">>
kwDraft == <<"d", "r", "a", "f", "t">>
kwFailing == <<"f", "a", "i", "l", "i", "n", "g">>
kwFlaky == <<"f", "l", "a", "k", "y">>
kwIssueTracking == <<"i", "s", "s", "u", "e", "-", "t", "r", "a", "c", "k", "i", "n", "g">>
kwIssueTrackingSp == <<"i", "s", "s", "u", "e", " ", "t", "r", "a", "c", "k", "i", "n", "g">>

-----------------------------------------------------------------------------
(* The remote project: field nodes of the schema query and items of the    *)
(* item query, drawn from small catalogues.                                *)

SingleSelect == "ProjectV2SingleSelectField"
Iteration == "ProjectV2IterationField"
SingleSelectValue == "ProjectV2ItemFieldSingleSelectValue"

Opt(id, name) == [ID |-> id, Name |-> name]

FieldNode(typename, id, name, options) ==
    [Typename |-> typename, ID |-> id, Name |-> name, Options |-> options]

\* "K8s Release" {v1.30, v1.31}
FR1 == FieldNode(SingleSelect, "fR1", <<"K", "8", "s", " ", "R", "e", "l", "e", "a", "s", "e">>,
                 << Opt("o130", <<"v", "1", ".", "3", "0">>),
                    Opt("o131", <<"v", "1", ".", "3", "1">>) >>)
\* "k8s release old" {1.9, v1.09}: two labels of equal numeric version
FR2 == FieldNode(SingleSelect, "fR2",
                 <<"k", "8", "s", " ", "r", "e", "l", "e", "a", "s", "e", " ", "o", "l", "d">>,
                 << Opt("o19", <<"1", ".", "9">>),
                    Opt("o109", <<"v", "1", ".", "0", "9">>) >>)
\* "K8s Release Notes" {todo}: no label carries a version
FR3 == FieldNode(SingleSelect, "fR3",
                 <<"K", "8", "s", " ", "R", "e", "l", "e", "a", "s", "e", " ", "N", "o", "t", "e", "s">>,
                 << Opt("oTodo", <<"t", "o", "d", "o">>) >>)
\* "Status" {Drafting, Failing}
FS1 == FieldNode(SingleSelect, "fS1", <<"S", "t", "a", "t", "u", "s">>,
                 << Opt("oDrafting", <<"D", "r", "a", "f", "t", "i", "n", "g">>),
                    Opt("oFailing", <<"F", "a", "i", "l", "i", "n", "g">>) >>)
\* "Status Review", an iteration field: it has no options
FS2 == FieldNode(Iteration, "fS2",
                 <<"S", "t", "a", "t", "u", "s", " ", "R", "e", "v", "i", "e", "w">>, <<>>)
\* "View" {issue-tracking}
FV1 == FieldNode(SingleSelect, "fV1", <<"V", "i", "e", "w">>,
                 << Opt("oTracking",
                        <<"i", "s", "s", "u", "e", "-", "t", "r", "a", "c", "k", "i", "n", "g">>) >>)
\* "Testgrid Board" {Blocking, gce}
FB1 == FieldNode(SingleSelect, "fB1",
                 <<"T", "e", "s", "t", "g", "r", "i", "d", " ", "B", "o", "a", "r", "d">>,
                 << Opt("oBlocking", <<"B", "l", "o", "c", "k", "i", "n", "g">>),
                    Opt("oGce", <<"g", "c", "e">>) >>)
\* "Dashboard" {gce}: a second field whose name contains "board"
FB2 == FieldNode(SingleSelect, "fB2", <<"D", "a", "s", "h", "b", "o", "a", "r", "d">>,
                 << Opt("oDashGce", <<"g", "c", "e">>) >>)
\* "Board Review", a field of a kind the schema query selects nothing of (a text field)
FU == FieldNode("ProjectV2Field", "fU",
                <<"B", "o", "a", "r", "d", " ", "R", "e", "v", "i", "e", "w">>, <<>>)

\* "Sub Status" {Draft, Flaky}, answered with empty option IDs
FE == FieldNode(SingleSelect, "fE", <<"S", "u", "b", " ", "S", "t", "a", "t", "u", "s">>,
                << Opt("", <<"D", "r", "a", "f", "t">>),
                   Opt("", <<"F", "l", "a", "k", "y">>) >>)

FieldCatalogue == {FR1, FR2, FR3, FS1, FS2, FV1, FB1, FB2, FU, FE}

NoRepeat(q) == \A i, j \in 1..Len(q) : i # j => q[i] # q[j]

\* sequences of at most n elements of S
RECURSIVE SeqsUpTo(_, _)
SeqsUpTo(S, n) ==
    IF n = 0 THEN {<<>>}
    ELSE LET shorter == SeqsUpTo(S, n - 1)
         IN  shorter \cup {Append(q, x) : q \in shorter, x \in S}

\* the remote gives each field its own ID: a schema holds no node twice
Schemas == {q \in SeqsUpTo(FieldCatalogue, MaxFields) : NoRepeat(q)}

FewSchemas == {<<FR1, FS1>>}

\* board-grouping selectors "<board>#<tab>"
selBlockingGce == <<"b", "l", "o", "c", "k", "i", "n", "g", "#", "g", "c", "e">>
selBlockingTab == <<"b", "l", "o", "c", "k", "i", "n", "g", "#", "t", "a", "b">>
selUnknownTab == <<"u", "n", "k", "n", "o", "w", "n", "#", "t", "a", "b">>

Selectors == {selBlockingGce, selBlockingTab, selUnknownTab}

\* one node of an item's fieldValues: a value that is not a single-select value leaves
\* the fragment's members at their zero values
Value(fieldID, name) == [Typename |-> SingleSelectValue, FieldID |-> fieldID, Name |-> name]

TextValue == [Typename |-> "ProjectV2ItemFieldTextValue", FieldID |-> NilID, Name |-> <<>>]

Item(typename, number, values) ==
    [Typename |-> typename, Number |-> number, FieldValues |-> values]

\* issue 1: release v1.31, then status Failing
IT1 == Item("Issue", 1, << Value("fR1", <<"v", "1", ".", "3", "1">>),
                           Value("fS1", <<"F", "a", "i", "l", "i", "n", "g">>) >>)
\* issue 2: the same two values in the other order, after a text value
IT2 == Item("Issue", 2, << TextValue,
                           Value("fS1", <<"F", "a", "i", "l", "i", "n", "g">>),
                           Value("fR1", <<"v", "1", ".", "3", "1">>) >>)
\* issue 3: an older release
IT3 == Item("Issue", 3, << Value("fR1", <<"v", "1", ".", "3", "0">>),
                           Value("fS1", <<"F", "a", "i", "l", "i", "n", "g">>) >>)
\* a pull request with the values of issue 1
IT4 == Item("PullRequest", 4, << Value("fR1", <<"v", "1", ".", "3", "1">>),
                                 Value("fS1", <<"F", "a", "i", "l", "i", "n", "g">>) >>)
\* a draft item with the values of issue 1
IT5 == Item("DraftIssue", 0, << Value("fR1", <<"v", "1", ".", "3", "1">>),
                                Value("fS1", <<"F", "a", "i", "l", "i", "n", "g">>) >>)
\* issue 6: the latest release, status Drafting
IT6 == Item("Issue", 6, << Value("fR1", <<"v", "1", ".", "3", "1">>),
                           Value("fS1", <<"D", "r", "a", "f", "t", "i", "n", "g">>) >>)
\* issue 7: a release label without a version
IT7 == Item("Issue", 7, << Value("fR3", <<"t", "o", "d", "o">>),
                           Value("fS1", <<"F", "a", "i", "l", "i", "n", "g">>) >>)

ItemCatalogue == {IT1, IT2, IT3, IT4, IT5, IT6, IT7}

Collections == SeqsUpTo(ItemCatalogue, MaxItems)

FewCollections == {<<>>, <<IT1, IT7, IT2>>}

-----------------------------------------------------------------------------
(* Schema Fetcher: the loop of GetProjectFields over the nodes of the      *)
(* response.                                                               *)

\* options[string(opt.Name)] = opt.ID for every option in turn: a later option of the
\* same name overwrites an earlier one
OptionsMap(opts) ==
    [n \in {opts[i].Name : i \in 1..Len(opts)} |->
        opts[CHOOSE i \in 1..Len(opts) :
                 opts[i].Name = n /\ \A j \in (i + 1)..Len(opts) : opts[j].Name # n].ID]

ProjectFieldInfo(id, name, options) == [ID |-> id, Name |-> name, Options |-> options]

RECURSIVE NormaliseFrom(_, _)
NormaliseFrom(nodes, i) ==
    IF i > Len(nodes) THEN <<>>
    ELSE LET node == nodes[i]
             rest == NormaliseFrom(nodes, i + 1)
         IN  CASE node.Typename = SingleSelect ->
                      <<ProjectFieldInfo(node.ID, node.Name, OptionsMap(node.Options))>> \o rest
               [] node.Typename = Iteration ->
                      <<ProjectFieldInfo(node.ID, node.Name, OptionsMap(<<>>))>> \o rest
               [] OTHER -> rest

\* a variant that keeps the fields of the other kinds, without options
NormaliseFieldsKeepAll(nodes) ==
    [i \in 1..Len(nodes) |->
        ProjectFieldInfo(nodes[i].ID, nodes[i].Name,
                         OptionsMap(IF nodes[i].Typename = SingleSelect THEN nodes[i].Options
                                    ELSE <<>>))]

\* the loop of GetProjectFields over query.Node.ProjectV2.Fields.Nodes
NormaliseFields(nodes) == NormaliseFrom(nodes, 1)

-----------------------------------------------------------------------------
(* Field Resolver.  Go iterates a map in an unspecified order: every loop  *)
(* "for optName, optID := range field.Options" takes the order it visits   *)
(* the option names in as a parameter, and the caller draws it from        *)
(* Orders(field.Options).                                                  *)

\* the orders a range over the map may visit its keys in
Orders(options) ==
    LET names == DOMAIN options
        n == Cardinality(names)
    IN  {q \in [1..n -> names] : \A x \in names : \E i \in 1..n : q[i] = x}

\* the index of the first field whose lower-cased name contains kw, 0 when there is none
FirstFieldNamed(fields, kw) ==
    IF \E i \in 1..Len(fields) : Contains(ToLower(fields[i].Name), kw)
    THEN CHOOSE i \in 1..Len(fields) :
             /\ Contains(ToLower(fields[i].Name), kw)
             /\ \A j \in 1..(i - 1) : ~Contains(ToLower(fields[j].Name), kw)
    ELSE 0

\* a variant that keeps the lowest version (the comparison turned round)
RECURSIVE LatestScanLowest(_, _, _, _, _)
LatestScanLowest(options, order, i, latestVersion, latestVersionID) ==
    IF i > Len(order) THEN latestVersionID
    ELSE LET optName == order[i]
             optID == options[optName]
             version == extractVersion(optName)
         IN  IF version # <<>> /\ (latestVersion = <<>> \/ compareVersions(version, latestVersion) < 0)
             THEN LatestScanLowest(options, order, i + 1, version,
                                   IF AssertsAsID(optID) THEN optID ELSE latestVersionID)
             ELSE LatestScanLowest(options, order, i + 1, latestVersion, latestVersionID)

\* a variant in which an option of equal version replaces the one chosen
RECURSIVE LatestScanLastTie(_, _, _, _, _)
LatestScanLastTie(options, order, i, latestVersion, latestVersionID) ==
    IF i > Len(order) THEN latestVersionID
    ELSE LET optName == order[i]
             optID == options[optName]
             version == extractVersion(optName)
         IN  IF version # <<>> /\ (latestVersion = <<>> \/ compareVersions(version, latestVersion) >= 0)
             THEN LatestScanLastTie(options, order, i + 1, version,
                                    IF AssertsAsID(optID) THEN optID ELSE latestVersionID)
             ELSE LatestScanLastTie(options, order, i + 1, latestVersion, latestVersionID)

\* the loop body of findK8sReleaseFieldAndLatestVersion over the options, in order
RECURSIVE LatestScan(_, _, _, _, _)
LatestScan(options, order, i, latestVersion, latestVersionID) ==
    IF i > Len(order) THEN latestVersionID
    ELSE LET optName == order[i]
             optID == options[optName]
             version == extractVersion(optName)
         IN  IF version # <<>> /\ (latestVersion = <<>> \/ compareVersions(version, latestVersion) > 0)
             THEN LatestScan(options, order, i + 1, version,
                             IF AssertsAsID(optID) THEN optID ELSE latestVersionID)
             ELSE LatestScan(options, order, i + 1, latestVersion, latestVersionID)

\* findK8sReleaseFieldAndLatestVersion; the named results start as nil interfaces
findK8sReleaseFieldAndLatestVersion(fields, order) ==
    LET f == FirstFieldNamed(fields, kwK8sRelease)
    IN  IF f = 0 THEN [fieldID |-> NilID, optionID |-> NilID]
        ELSE LET latestVersionID == LatestScan(fields[f].Options, order, 1, <<>>, "")
             IN  [fieldID |-> fields[f].ID,
                  optionID |-> IF latestVersionID # "" THEN latestVersionID ELSE NilID]

\* the option labels of the catalogue: the arguments a matcher is applied to
Labels == UNION {DOMAIN OptionsMap(field.Options) : field \in FieldCatalogue}

\* the option matchers of the two call sites, as functions of the label
DraftMatcher ==
    [optName \in Labels |->
        Contains(ToLower(optName), kwDrafting) \/ Contains(ToLower(optName), kwDraft)]

FailingMatcher ==
    [optName \in Labels |->
        Contains(ToLower(optName), kwFailing) \/ Contains(ToLower(optName), kwFlaky)]

\* a variant that goes on to the later status fields until an option matches
findStatusFieldAndOptionAnyField(fields, optionMatcher, order) ==
    LET named == {i \in 1..Len(fields) : Contains(ToLower(fields[i].Name), kwStatus)}
        matching(i) == {n \in DOMAIN fields[i].Options :
                           optionMatcher[n] /\ AssertsAsID(fields[i].Options[n])}
        hits == {i \in named : matching(i) # {}}
    IN  IF named = {} THEN [fieldID |-> NilID, optionID |-> NilID]
        ELSE IF hits = {}
             THEN [fieldID |-> fields[CHOOSE i \in named : \A j \in named : i <= j].ID,
                   optionID |-> NilID]
             ELSE LET f == CHOOSE i \in hits : \A j \in hits : i <= j
                  IN  [fieldID |-> fields[f].ID,
                       optionID |-> fields[f].Options[CHOOSE n \in matching(f) : TRUE]]

\* findStatusFieldAndOption: the first option, in order, that the matcher accepts and
\* whose ID passes the type assertion
findStatusFieldAndOption(fields, optionMatcher, order) ==
    LET f == FirstFieldNamed(fields, kwStatus)
    IN  IF f = 0 THEN [fieldID |-> NilID, optionID |-> NilID]
        ELSE LET hit(i) == optionMatcher[order[i]] /\ AssertsAsID(fields[f].Options[order[i]])
             IN  [fieldID |-> fields[f].ID,
                  optionID |-> IF \E i \in 1..Len(order) : hit(i)
                               THEN fields[f].Options[order[CHOOSE i \in 1..Len(order) :
                                        hit(i) /\ \A j \in 1..(i - 1) : ~hit(j)]]
                               ELSE NilID]

\* the orders of the one range loop each helper runs
ReleaseOrders(fields) ==
    IF FirstFieldNamed(fields, kwK8sRelease) = 0 THEN {<<>>}
    ELSE Orders(fields[FirstFieldNamed(fields, kwK8sRelease)].Options)

StatusOrders(fields) ==
    IF FirstFieldNamed(fields, kwStatus) = 0 THEN {<<>>}
    ELSE Orders(fields[FirstFieldNamed(fields, kwStatus)].Options)

\* the first name, in order, that is one of hits; 0 when none is (a range loop that
\* breaks at its first hit)
FirstHit(order, hits) ==
    IF \E i \in 1..Len(order) : order[i] \in hits
    THEN CHOOSE i \in 1..Len(order) :
             order[i] \in hits /\ \A j \in 1..(i - 1) : order[j] \notin hits
    ELSE 0

ViewMatcher(optName) ==
    Contains(ToLower(optName), kwIssueTracking) \/ Contains(ToLower(optName), kwIssueTrackingSp)

\* the loop of CreateDraftIssue over all the fields (it has no break): acc holds
\* viewFieldID, viewValueID, boardFieldID, boardValueID; ordV[i] and ordB[i] are the
\* orders of the two range loops over the options of field i
RECURSIVE ViewBoardScan(_, _, _, _, _, _)
ViewBoardScan(fields, board, ordV, ordB, i, acc) ==
    IF i > Len(fields) THEN acc
    ELSE LET field == fields[i]
             fieldNameLower == ToLower(field.Name)
             BoardMatcher(optName) == Contains(board, ToLower(optName))
             v == FirstHit(ordV[i], {n \in DOMAIN field.Options : ViewMatcher(n)})
             b == FirstHit(ordB[i], {n \in DOMAIN field.Options : BoardMatcher(n)})
             acc1 == IF Contains(fieldNameLower, kwView)
                     THEN [acc EXCEPT !.viewFieldID = field.ID,
                                      !.viewValueID = IF v # 0 THEN field.Options[ordV[i][v]]
                                                      ELSE @]
                     ELSE acc
             acc2 == IF Contains(fieldNameLower, kwBoard)
                     THEN [acc1 EXCEPT !.boardFieldID = field.ID,
                                       !.boardValueID = IF b # 0 THEN field.Options[ordB[i][b]]
                                                        ELSE @]
                     ELSE acc1
         IN  ViewBoardScan(fields, board, ordV, ordB, i + 1, acc2)

\* the four variables are declared without a value: nil interfaces
resolveViewAndBoard(fields, board, ordV, ordB) ==
    ViewBoardScan(fields, board, ordV, ordB, 1,
                  [viewFieldID |-> NilID, viewValueID |-> NilID,
                   boardFieldID |-> NilID, boardValueID |-> NilID])

\* one order for every field whose name contains kw (the fields whose options the
\* loop ranges over), the empty order for the others
FieldOrders(fields, kw) ==
    LET ranged(i) == Contains(ToLower(fields[i].Name), kw)
    IN  {o \in [1..Len(fields) ->
                   {<<>>} \cup UNION {Orders(fields[i].Options) : i \in 1..Len(fields)}] :
             \A i \in 1..Len(fields) :
                 IF ranged(i) THEN o[i] \in Orders(fields[i].Options) ELSE o[i] = <<>>}

\* "Find the latest version string for comparison": the first field that is named
\* k8s release and has the resolved ID, and in it the first option, in order, with the
\* resolved option ID
findLatestVersionStr(fields, k8sReleaseFieldID, k8sReleaseOptionID, ordL) ==
    LET named(i) == Contains(ToLower(fields[i].Name), kwK8sRelease)
                        /\ fields[i].ID = k8sReleaseFieldID
    IN  IF \E i \in 1..Len(fields) : named(i)
        THEN LET f == CHOOSE i \in 1..Len(fields) : named(i) /\ \A j \in 1..(i - 1) : ~named(j)
                 isOpt(optName) == fields[f].Options[optName] = k8sReleaseOptionID
                 h == FirstHit(ordL[f], {n \in DOMAIN fields[f].Options : isOpt(n)})
             IN  IF h # 0 THEN extractVersion(ordL[f][h]) ELSE <<>>
        ELSE <<>>

-----------------------------------------------------------------------------
(* Filtered Item Retriever: the filter of one item and of one page.        *)

\* the loop over node.FieldValues.Nodes with its two flags
RECURSIVE FieldValueScan(_, _, _, _, _, _)
FieldValueScan(values, i, k8sReleaseFieldID, statusFieldID, latestVersionStr, flags) ==
    IF i > Len(values) THEN flags
    ELSE LET fieldValue == values[i]
             fieldID == SprintV(fieldValue.FieldID)
             optionName == fieldValue.Name
             single == fieldValue.Typename = SingleSelectValue
             mv == \/ flags.matchesVersion
                   \/ /\ single
                      /\ fieldID = SprintV(k8sReleaseFieldID)
                      /\ extractVersion(optionName) = latestVersionStr
             ms == \/ flags.matchesStatus
                   \/ /\ single
                      /\ fieldID = SprintV(statusFieldID)
                      /\ LET optionNameLower == ToLower(optionName)
                         IN  Contains(optionNameLower, kwFailing)
                                 \/ Contains(optionNameLower, kwFlaky)
         IN  FieldValueScan(values, i + 1, k8sReleaseFieldID, statusFieldID, latestVersionStr,
                            [matchesVersion |-> mv, matchesStatus |-> ms])

\* a variant that includes an item when either flag is set
ItemIncludedEither(node, k8sReleaseFieldID, statusFieldID, latestVersionStr) ==
    /\ node.Typename = "Issue"
    /\ LET flags == FieldValueScan(node.FieldValues, 1, k8sReleaseFieldID, statusFieldID,
                                   latestVersionStr,
                                   [matchesVersion |-> FALSE, matchesStatus |-> FALSE])
       IN  flags.matchesVersion \/ flags.matchesStatus

\* a variant without the check of the content type
ItemIncludedAnyContent(node, k8sReleaseFieldID, statusFieldID, latestVersionStr) ==
    LET flags == FieldValueScan(node.FieldValues, 1, k8sReleaseFieldID, statusFieldID,
                                latestVersionStr,
                                [matchesVersion |-> FALSE, matchesStatus |-> FALSE])
    IN  flags.matchesVersion /\ flags.matchesStatus

\* does the loop body append the node to issues
ItemIncluded(node, k8sReleaseFieldID, statusFieldID, latestVersionStr) ==
    /\ node.Typename = "Issue"
    /\ LET flags == FieldValueScan(node.FieldValues, 1, k8sReleaseFieldID, statusFieldID,
                                   latestVersionStr,
                                   [matchesVersion |-> FALSE, matchesStatus |-> FALSE])
       IN  flags.matchesVersion /\ flags.matchesStatus

\* the Issue value built from an item (Title, Body, State and HTMLURL are copied
\* from the same content and are not modelled)
Issue(node) == [Number |-> node.Number]

\* the loop over the nodes of one page, appending to issues
RECURSIVE FilterPage(_, _, _, _, _, _)
FilterPage(nodes, i, issues, k8sReleaseFieldID, statusFieldID, latestVersionStr) ==
    IF i > Len(nodes) THEN issues
    ELSE FilterPage(nodes, i + 1,
                    IF ItemIncluded(nodes[i], k8sReleaseFieldID, statusFieldID, latestVersionStr)
                    THEN Append(issues, Issue(nodes[i]))
                    ELSE issues,
                    k8sReleaseFieldID, statusFieldID, latestVersionStr)

\* the remote's answer to items(first: $first, after: $after): the cursor is the number
\* of items before the page (0 for the nil cursor of the first query)
RemotePage(items, first, after) ==
    LET last == IF after + first < Len(items) THEN after + first ELSE Len(items)
    IN  [Nodes |-> SubSeq(items, after + 1, last),
         HasNextPage |-> last < Len(items),
         EndCursor |-> last]

-----------------------------------------------------------------------------
(* State.                                                                  *)

VARIABLES
    v1, v2,              \* the arguments of a call of compareVersions
    text,                \* the argument of a call of extractVersion
    compareRet,          \* the int compareVersions returned
    extractRet,          \* the string extractVersion returned
    organization,        \* ProjectManager.organization
    projectID,           \* ProjectManager.projectID
    managerFields,       \* ProjectManager.fields, a map of field names
    githubClient,        \* ProjectManager.githubClient: TRUE when it is not nil
    remoteFields,        \* the remote project's field nodes
    remoteItems,         \* the remote project's items during the current retrieval,
                         \* in the remote's default order
    op,                  \* the method being executed, "idle" between calls
    pc,                  \* the position in it
    board,               \* CreateDraftIssue's argument board
    perPage,             \* GetProjectIssues' argument perPage
    fields,              \* the local fields: the result of GetProjectFields
    k8sReleaseFieldID, k8sReleaseOptionID,
    statusFieldID, statusOptionID,
    viewFieldID, viewValueID,
    boardFieldID, boardValueID,
    latestVersionStr,
    issues, cursor, hasNextPage,
    updateIdx,           \* the index of the loop over fieldUpdates
    calls,               \* the remote calls of the current invocation, in order
    retErr,              \* the error returned
    retVal,              \* the slice returned ([]ProjectFieldInfo or []Issue)
    retNil               \* TRUE when the slice returned is nil

\* the state of the collaborators of the engine
VARIABLES
    now,                      \* the wall clock, in seconds
    statusDashboardSummary,   \* dashboard.Status.DashboardSummary as stored
    statusLastUpdate,         \* dashboard.Status.LastUpdate as stored
    dashboardStateGauge,      \* testgrid_dashboard_state: the value of each series recorded
    dashboardSummaries,       \* the summaries the last Reconcile fetched
    lastReconcile,            \* how the last Reconcile ended
    recordedTabs              \* the tabs the last Reconcile recorded metrics for

controller == <<now, statusDashboardSummary, statusLastUpdate, dashboardStateGauge,
                dashboardSummaries, lastReconcile, recordedTabs>>

\* no Dashboard has been reconciled
NoController ==
    /\ now = 0
    /\ statusDashboardSummary = <<>>
    /\ statusLastUpdate = [isZero |-> TRUE, time |-> 0]
    /\ dashboardStateGauge = <<>>
    /\ dashboardSummaries = <<>>
    /\ lastReconcile = "none"
    /\ recordedTabs = {}

VARIABLES
    mcpPc,                    \* the position of handleListProjectIssues, "idle" between calls
    mcpArguments,             \* the arguments of the last call of list_project_issues
    mcpResult                 \* what the last call of the tool returned

mcp == <<mcpPc, mcpArguments, mcpResult>>

NoResult == [returned |-> FALSE]

\* no tool has been called
NoMCP ==
    /\ mcpPc = "idle"
    /\ mcpArguments = <<>>
    /\ mcpResult = NoResult

VARIABLES
    rsFields,                 \* the fields a resolution is run on
    rsBoard,                  \* the selector it is run with
    rsRuns                    \* the runs so far: the orders each took and the IDs it found

resolver == <<rsFields, rsBoard, rsRuns>>

\* no resolution is run on its own
NoResolver ==
    /\ rsFields = <<>>
    /\ rsBoard = <<>>
    /\ rsRuns = <<>>

VARIABLES
    remoteEndless,            \* the remote announces a next page on every item query
    remoteStalls              \* the item queries the remote still answers with "next
                              \* page" before it pages honestly

stalling == <<remoteEndless, remoteStalls>>

\* the remote pages honestly
NoStalling ==
    /\ remoteEndless = FALSE
    /\ remoteStalls = 0

\* the state of the TUI
VARIABLES
    tabs,                     \* MultiWindowTUI.tabs: the BoardHash of the tabs displayed
    testgridClient,           \* MultiWindowTUI.testgridClient: TRUE when it is not nil
    refreshTicker,            \* MultiWindowTUI.refreshTicker: "nil" or "ticker"
    refreshStopCh,            \* MultiWindowTUI.refreshStopCh: "open" or "closed"
    tickerRunning,            \* the ticker was made and not stopped
    tickPending,              \* the channel of the ticker holds a tick
    ticks,                    \* the ticks sent so far
    runPc,                    \* the position of Run
    loopPc,                   \* the position of the goroutine of startAutoRefresh
    started,                  \* the tickers made, the loop goroutines started and the
                              \* closes of refreshStopCh so far
    refreshing,               \* the goroutines of refreshBrokenTestsAsync that still fetch
    updates                   \* the updates queued with QueueUpdateDraw, oldest first

tui == <<tabs, testgridClient, refreshTicker, refreshStopCh, tickerRunning, tickPending, ticks,
         runPc, loopPc, started, refreshing, updates>>

\* no TUI is made
NoTUI ==
    /\ tabs = <<>>
    /\ testgridClient = FALSE
    /\ refreshTicker = "nil"
    /\ refreshStopCh = "open"
    /\ tickerRunning = FALSE
    /\ tickPending = FALSE
    /\ ticks = 0
    /\ runPc = "none"
    /\ loopPc = "none"
    /\ started = [tickers |-> 0, loops |-> 0, closes |-> 0]
    /\ refreshing = 0
    /\ updates = <<>>

collaborators == <<controller, mcp, resolver, stalling, tui>>

\* no reconcile, no tool call, no resolution on its own, an honest remote
NoCollaborators == NoController /\ NoMCP /\ NoResolver /\ NoStalling

args == <<board, perPage>>
resolved == <<k8sReleaseFieldID, k8sReleaseOptionID, statusFieldID, statusOptionID,
              viewFieldID, viewValueID, boardFieldID, boardValueID>>
paging == <<latestVersionStr, issues, cursor, hasNextPage>>
returned == <<retErr, retVal, retNil>>
pure == <<v1, v2, text, compareRet, extractRet>>
manager == <<organization, projectID, managerFields>>
remote == <<githubClient, remoteFields>>

vars == <<collaborators, pure, manager, remote, remoteItems, op, pc, args, fields, resolved, paging, updateIdx, calls, returned>>

\* one remote call as the engine issued it
Call(kind, first, after, fieldName, fieldID, optionID, ok) ==
    [kind |-> kind, first |-> first, after |-> after, fieldName |-> fieldName,
     fieldID |-> fieldID, optionID |-> optionID, ok |-> ok]

FieldsQuery(ok) == Call("fields", 0, 0, "", NilID, "", ok)
ItemsQuery(first, after, ok) == Call("items", first, after, "", NilID, "", ok)
AddDraftMutation(ok) == Call("addDraft", 0, 0, "", NilID, "", ok)
UpdateMutation(fieldName, fieldID, optionID, ok) ==
    Call("update", 0, 0, fieldName, fieldID, optionID, ok)

\* no call of one of the two version functions is under way
NoPure ==
    /\ v1 = <<>> /\ v2 = <<>> /\ compareRet = 0
    /\ text = <<>> /\ extractRet = <<>>

\* the values of the locals before a method assigns them
NoLocals ==
    /\ board = <<>>
    /\ perPage = 0
    /\ fields = <<>>
    /\ k8sReleaseFieldID = NilID /\ k8sReleaseOptionID = NilID
    /\ statusFieldID = NilID /\ statusOptionID = NilID
    /\ viewFieldID = NilID /\ viewValueID = NilID
    /\ boardFieldID = NilID /\ boardValueID = NilID
    /\ latestVersionStr = <<>>
    /\ issues = <<>> /\ cursor = 0 /\ hasNextPage = FALSE
    /\ updateIdx = 0
    /\ calls = <<>>
    /\ retErr = NoErr /\ retVal = <<>> /\ retNil = TRUE

PROJECT_ID == "PVT_kwDOAM_34M4AAThW"
ORGANIZATION == "kubernetes"

\* NewProjectManager (or a manager without a client) and the schema of the remote
\* project
Init ==
    /\ NoTUI
    /\ NoCollaborators
    /\ NoPure
    /\ organization = ORGANIZATION
    /\ projectID = PROJECT_ID
    /\ managerFields = <<>>
    /\ githubClient \in BOOLEAN
    /\ remoteFields \in Schemas
    /\ remoteItems = <<>>
    /\ op = "idle"
    /\ pc = "idle"
    /\ NoLocals

\* return nil/zero, err
Fail(err) ==
    /\ pc' = "done"
    /\ retErr' = err
    /\ retVal' = <<>>
    /\ retNil' = TRUE

-----------------------------------------------------------------------------
(* The three methods of ProjectManagerInterface, entered by a collaborator. *)

\* a variant without the nil-client check
EnterUnchecked(method) ==
    /\ pc = "idle"
    /\ op' = method
    /\ pc' = "fields"
    /\ UNCHANGED <<collaborators, pure, manager, remote, fields, resolved, paging, updateIdx, calls, returned>>

\* the entry of a method: the nil-client check
Enter(method) ==
    /\ pc = "idle"
    /\ op' = method
    /\ IF githubClient
       THEN pc' = "fields" /\ UNCHANGED returned
       ELSE Fail(ErrClientNil)
    /\ UNCHANGED <<collaborators, pure, manager, remote, fields, resolved, paging, updateIdx, calls>>

CallGetProjectFields ==
    /\ Enter("GetProjectFields")
    /\ UNCHANGED <<args, remoteItems>>

\* the items the remote holds when the retrieval starts: a wide range of collections
\* under a few schemas, a few collections under the other schemas
CallGetProjectIssues ==
    \E n \in 1..MaxPerPage :
        \E items \in IF remoteFields \in FewSchemas THEN Collections ELSE FewCollections :
            /\ Enter("GetProjectIssues")
            /\ perPage' = n
            /\ remoteItems' = items
            /\ UNCHANGED board

CallCreateDraftIssue ==
    \E b \in Selectors :
        /\ Enter("CreateDraftIssue")
        /\ board' = b
        /\ UNCHANGED <<perPage, remoteItems>>

\* a variant that keeps the answer in the manager and serves the later calls from it
QueryFieldsOkCaching ==
    /\ pc = "fields"
    /\ LET cached == managerFields # <<>>
           answer == IF cached THEN managerFields[1] ELSE NormaliseFields(remoteFields)
       IN  /\ calls' = IF cached THEN calls ELSE Append(calls, FieldsQuery(TRUE))
           /\ managerFields' = <<answer>>
           /\ fields' = answer
           /\ IF op = "GetProjectFields"
              THEN /\ pc' = "done"
                   /\ retErr' = NoErr
                   /\ retVal' = answer
                   /\ retNil' = FALSE
              ELSE pc' = "resolve" /\ UNCHANGED returned
    /\ UNCHANGED <<collaborators, pure, organization, projectID, remote, remoteItems, op, args, resolved,
                   paging, updateIdx>>

\* GetProjectFields: the schema query answers
QueryFieldsOk ==
    /\ pc = "fields"
    /\ calls' = Append(calls, FieldsQuery(TRUE))
    /\ fields' = NormaliseFields(remoteFields)
    /\ IF op = "GetProjectFields"
       THEN /\ pc' = "done"
            /\ retErr' = NoErr
            /\ retVal' = NormaliseFields(remoteFields)
            /\ retNil' = FALSE
       ELSE pc' = "resolve" /\ UNCHANGED returned
    /\ UNCHANGED <<collaborators, pure, manager, remote, remoteItems, op, args, resolved, paging, updateIdx>>

\* a variant whose callers go on with no fields after a failed schema query
QueryFieldsFailIgnored ==
    /\ pc = "fields"
    /\ calls' = Append(calls, FieldsQuery(FALSE))
    /\ IF op = "GetProjectFields"
       THEN Fail(ErrQueryFields)
       ELSE pc' = "resolve" /\ UNCHANGED returned
    /\ UNCHANGED <<collaborators, pure, manager, remote, remoteItems, op, args, fields, resolved, paging, updateIdx>>

\* GetProjectFields: the schema query fails; the callers wrap the error and return
QueryFieldsFail ==
    /\ pc = "fields"
    /\ calls' = Append(calls, FieldsQuery(FALSE))
    /\ Fail(IF op = "GetProjectFields" THEN ErrQueryFields ELSE ErrGetFields)
    /\ UNCHANGED <<collaborators, pure, manager, remote, remoteItems, op, args, fields, resolved, paging, updateIdx>>

-----------------------------------------------------------------------------
(* CreateDraftIssue.                                                       *)

\* "find the fields we need": the two helpers, then the loop over the fields
ResolveDraft ==
    /\ pc = "resolve"
    /\ op = "CreateDraftIssue"
    /\ \E r \in {findK8sReleaseFieldAndLatestVersion(fields, oR) : oR \in ReleaseOrders(fields)},
          st \in {findStatusFieldAndOption(fields, DraftMatcher, oS) : oS \in StatusOrders(fields)},
          vb \in {resolveViewAndBoard(fields, board, oV, oB) :
                     oV \in FieldOrders(fields, kwView), oB \in FieldOrders(fields, kwBoard)} :
               /\ k8sReleaseFieldID' = r.fieldID
               /\ k8sReleaseOptionID' = r.optionID
               /\ statusFieldID' = st.fieldID
               /\ statusOptionID' = st.optionID
               /\ viewFieldID' = vb.viewFieldID
               /\ viewValueID' = vb.viewValueID
               /\ boardFieldID' = vb.boardFieldID
               /\ boardValueID' = vb.boardValueID
    /\ pc' = "addDraft"
    /\ UNCHANGED <<collaborators, pure, manager, remote, remoteItems, op, args, fields, paging, updateIdx, calls, returned>>

\* the addProjectV2DraftIssue mutation succeeds
AddDraftOk ==
    /\ pc = "addDraft"
    /\ calls' = Append(calls, AddDraftMutation(TRUE))
    /\ pc' = "update"
    /\ updateIdx' = 1
    /\ UNCHANGED <<collaborators, pure, manager, remote, remoteItems, op, args, fields, resolved, paging, returned>>

\* a variant that prints the failure and goes on to the field updates
AddDraftFailIgnored ==
    /\ pc = "addDraft"
    /\ calls' = Append(calls, AddDraftMutation(FALSE))
    /\ pc' = "update"
    /\ updateIdx' = 1
    /\ UNCHANGED <<collaborators, pure, manager, remote, remoteItems, op, args, fields, resolved, paging, returned>>

\* the addProjectV2DraftIssue mutation fails
AddDraftFail ==
    /\ pc = "addDraft"
    /\ calls' = Append(calls, AddDraftMutation(FALSE))
    /\ Fail(ErrCreateDraft)
    /\ UNCHANGED <<collaborators, pure, manager, remote, remoteItems, op, args, fields, resolved, paging, updateIdx>>

\* a variant with the status update ahead of the view update
fieldUpdatesStatusBeforeView ==
    << [fieldID |-> k8sReleaseFieldID, optionID |-> k8sReleaseOptionID, fieldName |-> "K8s Release"],
       [fieldID |-> statusFieldID, optionID |-> statusOptionID, fieldName |-> "Status"],
       [fieldID |-> viewFieldID, optionID |-> viewValueID, fieldName |-> "View"],
       [fieldID |-> boardFieldID, optionID |-> boardValueID, fieldName |-> "Testgrid Board"] >>

\* the slice fieldUpdates
fieldUpdates ==
    << [fieldID |-> k8sReleaseFieldID, optionID |-> k8sReleaseOptionID, fieldName |-> "K8s Release"],
       [fieldID |-> viewFieldID, optionID |-> viewValueID, fieldName |-> "View"],
       [fieldID |-> statusFieldID, optionID |-> statusOptionID, fieldName |-> "Status"],
       [fieldID |-> boardFieldID, optionID |-> boardValueID, fieldName |-> "Testgrid Board"] >>

\* the guard of the loop body: update.fieldID != "" && update.optionID != ""
UpdateGuard(update) == ~IsEmptyString(update.fieldID) /\ ~IsEmptyString(update.optionID)

\* a variant that returns the error of a failed update instead of printing a warning
UpdateSendStopsOnFailure(ok) ==
    /\ pc = "update"
    /\ updateIdx <= Len(fieldUpdates)
    /\ UpdateGuard(fieldUpdates[updateIdx])
    /\ LET update == fieldUpdates[updateIdx]
       IN  calls' = Append(calls, UpdateMutation(update.fieldName, update.fieldID,
                                                 SprintS(update.optionID), ok))
    /\ IF ok
       THEN updateIdx' = updateIdx + 1 /\ UNCHANGED <<pc, returned>>
       ELSE Fail("failed to update field: remote error") /\ UNCHANGED updateIdx
    /\ UNCHANGED <<collaborators, pure, manager, remote, remoteItems, op, args, fields, resolved, paging>>

\* one iteration whose guard holds: the updateProjectV2ItemFieldValue mutation is sent
\* and succeeds, or fails with a warning printed
UpdateSend(ok) ==
    /\ pc = "update"
    /\ updateIdx <= Len(fieldUpdates)
    /\ UpdateGuard(fieldUpdates[updateIdx])
    /\ LET update == fieldUpdates[updateIdx]
       IN  calls' = Append(calls, UpdateMutation(update.fieldName, update.fieldID,
                                                 SprintS(update.optionID), ok))
    /\ updateIdx' = updateIdx + 1
    /\ UNCHANGED <<collaborators, pure, manager, remote, remoteItems, op, pc, args, fields, resolved, paging, returned>>

UpdateSendOk == UpdateSend(TRUE)

UpdateSendFail == UpdateSend(FALSE)

\* one iteration whose guard does not hold
UpdateSkip ==
    /\ pc = "update"
    /\ updateIdx <= Len(fieldUpdates)
    /\ ~UpdateGuard(fieldUpdates[updateIdx])
    /\ updateIdx' = updateIdx + 1
    /\ UNCHANGED <<collaborators, pure, manager, remote, remoteItems, op, pc, args, fields, resolved, paging, calls, returned>>

\* after the loop: return nil
DraftReturn ==
    /\ pc = "update"
    /\ updateIdx > Len(fieldUpdates)
    /\ pc' = "done"
    /\ retErr' = NoErr
    /\ retVal' = <<>>
    /\ retNil' = TRUE
    /\ UNCHANGED <<collaborators, pure, manager, remote, remoteItems, op, args, fields, resolved, paging, updateIdx, calls>>

-----------------------------------------------------------------------------
(* GetProjectIssues.                                                       *)

\* the helpers, the two checks of the option IDs against "", the latest version string
ResolveIssues ==
    /\ pc = "resolve"
    /\ op = "GetProjectIssues"
    /\ \E r \in {findK8sReleaseFieldAndLatestVersion(fields, oR) : oR \in ReleaseOrders(fields)},
          st \in {findStatusFieldAndOption(fields, FailingMatcher, oS) : oS \in StatusOrders(fields)},
          oL \in FieldOrders(fields, kwK8sRelease) :
               /\ k8sReleaseFieldID' = r.fieldID
               /\ k8sReleaseOptionID' = r.optionID
               /\ statusFieldID' = st.fieldID
               /\ statusOptionID' = st.optionID
               /\ IF IsEmptyString(r.optionID)
                  THEN Fail(ErrNoLatestVersion) /\ UNCHANGED paging
                  ELSE IF IsEmptyString(st.optionID)
                  THEN Fail(ErrNoFailingStatus) /\ UNCHANGED paging
                  ELSE /\ latestVersionStr' =
                              findLatestVersionStr(fields, r.fieldID, r.optionID, oL)
                       /\ issues' = <<>>
                       /\ cursor' = 0
                       /\ hasNextPage' = TRUE
                       /\ pc' = "page"
                       /\ UNCHANGED returned
    /\ UNCHANGED <<collaborators, pure, manager, remote, remoteItems, op, args, fields, viewFieldID, viewValueID, boardFieldID,
                   boardValueID, updateIdx, calls>>

\* a variant that returns after its first page
QueryPageOkOnce ==
    /\ pc = "page"
    /\ hasNextPage
    /\ LET page == RemotePage(remoteItems, perPage, cursor)
           kept == FilterPage(page.Nodes, 1, issues, k8sReleaseFieldID, statusFieldID,
                              latestVersionStr)
       IN  /\ calls' = Append(calls, ItemsQuery(perPage, cursor, TRUE))
           /\ issues' = kept
           /\ hasNextPage' = FALSE
           /\ cursor' = cursor
           /\ pc' = "done"
           /\ retErr' = NoErr
           /\ retVal' = kept
           /\ retNil' = FALSE
    /\ UNCHANGED <<collaborators, pure, manager, remote, remoteItems, op, args, fields, resolved, latestVersionStr, updateIdx>>

\* one iteration of "for hasNextPage": the item query answers with a page
QueryPageOk ==
    /\ pc = "page"
    /\ hasNextPage
    /\ LET page == RemotePage(remoteItems, perPage, cursor)
           kept == FilterPage(page.Nodes, 1, issues, k8sReleaseFieldID, statusFieldID,
                              latestVersionStr)
       IN  /\ calls' = Append(calls, ItemsQuery(perPage, cursor, TRUE))
           /\ issues' = kept
           /\ hasNextPage' = page.HasNextPage
           /\ cursor' = IF page.HasNextPage THEN page.EndCursor ELSE cursor
           /\ IF page.HasNextPage
              THEN pc' = "page" /\ UNCHANGED returned
              ELSE /\ pc' = "done"
                   /\ retErr' = NoErr
                   /\ retVal' = kept
                   /\ retNil' = FALSE
    /\ UNCHANGED <<collaborators, pure, manager, remote, remoteItems, op, args, fields, resolved, latestVersionStr, updateIdx>>

\* a variant that returns the issues collected so far with the error
QueryPageFailPartial ==
    /\ pc = "page"
    /\ hasNextPage
    /\ calls' = Append(calls, ItemsQuery(perPage, cursor, FALSE))
    /\ pc' = "done"
    /\ retErr' = ErrQueryIssues
    /\ retVal' = issues
    /\ retNil' = FALSE
    /\ UNCHANGED <<collaborators, pure, manager, remote, remoteItems, op, args, fields, resolved, paging, updateIdx>>

\* the item query fails: return nil, err
QueryPageFail ==
    /\ pc = "page"
    /\ hasNextPage
    /\ calls' = Append(calls, ItemsQuery(perPage, cursor, FALSE))
    /\ Fail(ErrQueryIssues)
    /\ UNCHANGED <<collaborators, pure, manager, remote, remoteItems, op, args, fields, resolved, paging, updateIdx>>

-----------------------------------------------------------------------------
(* The method returns to its caller; nothing of the call is kept.          *)

ReturnToCaller ==
    /\ pc = "done"
    /\ op' = "idle"
    /\ pc' = "idle"
    /\ board' = <<>>
    /\ perPage' = 0
    /\ fields' = <<>>
    /\ k8sReleaseFieldID' = NilID /\ k8sReleaseOptionID' = NilID
    /\ statusFieldID' = NilID /\ statusOptionID' = NilID
    /\ viewFieldID' = NilID /\ viewValueID' = NilID
    /\ boardFieldID' = NilID /\ boardValueID' = NilID
    /\ latestVersionStr' = <<>>
    /\ issues' = <<>> /\ cursor' = 0 /\ hasNextPage' = FALSE
    /\ updateIdx' = 0
    /\ calls' = <<>>
    /\ retErr' = NoErr /\ retVal' = <<>> /\ retNil' = TRUE
    /\ remoteItems' = <<>>

Return ==
    /\ ReturnToCaller
    /\ UNCHANGED <<collaborators, pure, manager, remote>>

\* between two calls the project's fields are edited on the remote side
RemoteChanges ==
    /\ pc = "idle"
    /\ remoteFields' \in Schemas \ {remoteFields}
    /\ UNCHANGED <<collaborators, pure, manager, githubClient, remoteItems, op, pc, args, fields, resolved, paging,
                   updateIdx, calls, returned>>

Next ==
    \/ RemoteChanges
    \/ CallGetProjectFields
    \/ CallGetProjectIssues
    \/ CallCreateDraftIssue
    \/ QueryFieldsOk
    \/ QueryFieldsFail
    \/ ResolveDraft
    \/ AddDraftOk
    \/ AddDraftFail
    \/ UpdateSendOk
    \/ UpdateSendFail
    \/ UpdateSkip
    \/ DraftReturn
    \/ ResolveIssues
    \/ QueryPageOk
    \/ QueryPageFail
    \/ Return

Spec == Init /\ [][Next]_vars

-----------------------------------------------------------------------------
(* The two version functions on their own: a collaborator applies           *)
(* compareVersions to a pair of texts or extractVersion to a text.         *)

VersionChars == {"0", "1", "."}

\* the versions of the comments and of the option labels of the engine
VersionExamples ==
    { <<"1", ".", "3", "0">>, <<"1", ".", "3", "1">>, <<"2", ".", "0">>, <<"1", ".", "9">>,
      <<"1", ".", "5">>, <<"1", ".", "0", "9">>, <<"1", ".", "3", "2", ".", "1">> }

Versions == SeqsUpTo(VersionChars, MaxVersionLen) \cup VersionExamples

TextChars == {"v", "1", "2", ".", "x"}

TextExamples ==
    { <<"v", "1", ".", "3", "2">>, <<"1", ".", "3", "2">>, <<"1", ".", "3", "2", ".", "1">>,
      <<"v", "1", ".", "3", "0">>, <<"K", "8", "s", " ", "v", "1", ".", "3", "1">>,
      <<"r", "e", "l", "e", "a", "s", "e", "-", "1", "2", ".", "0", "4", "-", "x">>,
      <<"D", "r", "a", "f", "t", "i", "n", "g">> }

Texts == SeqsUpTo(TextChars, MaxTextLen) \cup TextExamples

\* the engine is idle with no client; one call of one of the two functions is about
\* to be made
InitVersions ==
    /\ NoTUI
    /\ NoCollaborators
    /\ organization = ORGANIZATION
    /\ projectID = PROJECT_ID
    /\ managerFields = <<>>
    /\ githubClient = FALSE
    /\ remoteFields = <<>>
    /\ remoteItems = <<>>
    /\ NoLocals
    /\ pc = "call"
    /\ compareRet = 0
    /\ extractRet = <<>>
    /\ \/ op = "compareVersions" /\ v1 \in Versions /\ v2 \in Versions /\ text = <<>>
       \/ op = "extractVersion" /\ text \in Texts /\ v1 = <<>> /\ v2 = <<>>

ApplyCompareVersions ==
    /\ op = "compareVersions"
    /\ pc = "call"
    /\ compareRet' = compareVersions(v1, v2)
    /\ pc' = "done"
    /\ UNCHANGED <<collaborators, v1, v2, text, extractRet, manager, remote, remoteItems, op, args, fields,
                   resolved, paging, updateIdx, calls, returned>>

ApplyExtractVersion ==
    /\ op = "extractVersion"
    /\ pc = "call"
    /\ extractRet' = extractVersion(text)
    /\ pc' = "done"
    /\ UNCHANGED <<collaborators, v1, v2, text, compareRet, manager, remote, remoteItems, op, args, fields,
                   resolved, paging, updateIdx, calls, returned>>

NextVersions ==
    \/ ApplyCompareVersions
    \/ ApplyExtractVersion

SpecVersions == InitVersions /\ [][NextVersions]_vars

-----------------------------------------------------------------------------
(* The Dashboard controller: Reconcile, shouldRefresh, recordMetrics.      *)

\* the engine is idle and none of the version functions is called
NoEngine ==
    /\ NoPure
    /\ organization = ORGANIZATION
    /\ projectID = PROJECT_ID
    /\ managerFields = <<>>
    /\ githubClient = FALSE
    /\ remoteFields = <<>>
    /\ remoteItems = <<>>
    /\ op = "idle"
    /\ pc = "idle"
    /\ NoLocals

\* refreshInterval := time.Duration(1) * time.Minute, in seconds
refreshInterval == 60

DashboardName == "sig-release-master-blocking"

TabNames == <<"gce-cos-master-default", "kind-master", "capz-windows-master">>

\* the states FetchTabSummary is asked for (ERROR_STATUSES)
ERROR_STATUSES == {"FAILING", "FLAKY"}

DashboardSummary(tabName, overallState, currentState) ==
    [DashboardName |-> DashboardName, TabName |-> tabName,
     OverallState |-> overallState, CurrentState |-> currentState]

\* the answers of FetchTabSummary: for each subset of the first MaxTabs tabs, in their
\* order, one summary per tab
RECURSIVE SummariesFrom(_, _)
SummariesFrom(i, overallState) ==
    IF i > MaxTabs THEN {<<>>}
    ELSE LET rest == SummariesFrom(i + 1, overallState)
         IN  rest \cup {<<DashboardSummary(TabNames[i], overallState, st)>> \o r :
                           st \in ERROR_STATUSES, r \in rest}

Summaries == UNION {SummariesFrom(1, o) : o \in ERROR_STATUSES}

\* metav1.Time: the zero time, or a time of the clock
ZeroTime == [isZero |-> TRUE, time |-> 0]
TimeAt(t) == [isZero |-> FALSE, time |-> t]

\* a variant that refreshes whenever the summaries differ
shouldRefreshWithoutInterval(dashboardStatusSummary, dashboardStatusLastUpdate, summary, clock) ==
    dashboardStatusSummary # summary

\* shouldRefresh
shouldRefresh(dashboardStatusSummary, dashboardStatusLastUpdate, summary, clock) ==
    IF dashboardStatusSummary = summary THEN FALSE
    ELSE IF dashboardStatusLastUpdate.isZero THEN TRUE
    ELSE clock - dashboardStatusLastUpdate.time >= refreshInterval

\* one series of testgrid_dashboard_state
Series(dashboard, tab, key, value) ==
    [dashboard |-> dashboard, tab |-> tab, key |-> key, value |-> value]

\* gauge.Record(ctx, value, attributes): the series reads value from now on
Record(gauge, series, value) ==
    [s \in DOMAIN gauge \cup {series} |-> IF s = series THEN value ELSE gauge[s]]

\* recordMetrics, the two records on dashboardStateGauge
recordMetrics(gauge, dashSummary) ==
    LET g1 == Record(gauge, Series(dashSummary.DashboardName, dashSummary.TabName,
                                   "overall_state", dashSummary.OverallState), 1)
    IN  Record(g1, Series(dashSummary.DashboardName, dashSummary.TabName,
                          "state", dashSummary.CurrentState), 1)

\* the loop of Reconcile over dashboardSummaries: the tabs whose FetchTabTests
\* succeeded (testsOk) get their metrics recorded
RECURSIVE RecordLoop(_, _, _, _)
RecordLoop(gauge, summaries, i, testsOk) ==
    IF i > Len(summaries) THEN gauge
    ELSE RecordLoop(IF summaries[i].TabName \in testsOk
                    THEN recordMetrics(gauge, summaries[i]) ELSE gauge,
                    summaries, i + 1, testsOk)

\* a controller manager with metrics initialised and a Dashboard without status
InitController ==
    /\ NoTUI
    /\ NoEngine
    /\ NoMCP
    /\ NoResolver
    /\ NoStalling
    /\ now = 0
    /\ statusDashboardSummary = <<>>
    /\ statusLastUpdate = ZeroTime
    /\ dashboardStateGauge = <<>>
    /\ dashboardSummaries = <<>>
    /\ lastReconcile = "none"
    /\ recordedTabs = {}

engine == <<pure, manager, remote, remoteItems, op, pc, args, fields, resolved, paging,
            updateIdx, calls, returned>>

\* the state outside the controller
beyondController == <<mcp, resolver, stalling, tui, engine>>

\* time passes
ClockAdvances ==
    /\ now + TickSeconds <= MaxClock
    /\ now' = now + TickSeconds
    /\ UNCHANGED <<statusDashboardSummary, statusLastUpdate, dashboardStateGauge,
                   dashboardSummaries, lastReconcile, recordedTabs, beyondController>>

\* Reconcile: r.Get fails
ReconcileGetFails ==
    /\ lastReconcile' = "get failed"
    /\ recordedTabs' = {}
    /\ UNCHANGED <<now, statusDashboardSummary, statusLastUpdate, dashboardStateGauge,
                   dashboardSummaries, beyondController>>

\* Reconcile: FetchTabSummary fails
ReconcileFetchFails ==
    /\ lastReconcile' = "fetch failed"
    /\ recordedTabs' = {}
    /\ UNCHANGED <<now, statusDashboardSummary, statusLastUpdate, dashboardStateGauge,
                   dashboardSummaries, beyondController>>

\* Reconcile: shouldRefresh says no
ReconcileSkips ==
    \E summary \in Summaries :
        /\ ~shouldRefresh(statusDashboardSummary, statusLastUpdate, summary, now)
        /\ dashboardSummaries' = summary
        /\ lastReconcile' = "skipped"
        /\ recordedTabs' = {}
        /\ UNCHANGED <<now, statusDashboardSummary, statusLastUpdate, dashboardStateGauge,
                       beyondController>>

\* Reconcile: shouldRefresh says yes and the status update fails
ReconcileUpdateFails ==
    \E summary \in Summaries :
        /\ shouldRefresh(statusDashboardSummary, statusLastUpdate, summary, now)
        /\ dashboardSummaries' = summary
        /\ lastReconcile' = "update failed"
        /\ recordedTabs' = {}
        /\ UNCHANGED <<now, statusDashboardSummary, statusLastUpdate, dashboardStateGauge,
                       beyondController>>

\* Reconcile: shouldRefresh says yes, the status is written, and the metrics of the
\* tabs whose tests were fetched are recorded
ReconcileRefreshes ==
    \E summary \in Summaries :
        \E testsOk \in SUBSET {summary[i].TabName : i \in 1..Len(summary)} :
            /\ shouldRefresh(statusDashboardSummary, statusLastUpdate, summary, now)
            /\ dashboardSummaries' = summary
            /\ statusDashboardSummary' = summary
            /\ statusLastUpdate' = TimeAt(now)
            /\ dashboardStateGauge' = RecordLoop(dashboardStateGauge, summary, 1, testsOk)
            /\ lastReconcile' = "refreshed"
            /\ recordedTabs' = testsOk
            /\ UNCHANGED <<now, beyondController>>

NextController ==
    \/ ClockAdvances
    \/ ReconcileGetFails
    \/ ReconcileFetchFails
    \/ ReconcileSkips
    \/ ReconcileUpdateFails
    \/ ReconcileRefreshes

SpecController == InitController /\ [][NextController]_vars

-----------------------------------------------------------------------------
(* The MCP server: the handler of the tool list_project_issues.            *)

\* perPage := 100
DefaultPerPage == 100

\* the arguments of a tool call: without perPage, or with an integer perPage
McpArguments == {<<>>} \cup {<<n>> : n \in {-1, 0, DefaultPerPage} \cup 1..MaxPerPage}

\* the items the remote holds when the tool is called
McpCollections == FewCollections \cup {<<item>> : item \in ItemCatalogue}

\* ListProjectIssuesInput decoded from the arguments: PerPage is omitempty, an
\* absent perPage leaves the zero value
ListProjectIssuesInput(arguments) ==
    [PerPage |-> IF arguments = <<>> THEN 0 ELSE arguments[1]]

\* a variant that passes every non-negative PerPage on
PerPageOfNonNegative(input) ==
    IF input.PerPage >= 0 THEN input.PerPage ELSE DefaultPerPage

\* perPage := 100; if input.PerPage > 0 { perPage = input.PerPage }
PerPageOf(input) ==
    IF input.PerPage > 0 THEN input.PerPage ELSE DefaultPerPage

\* the values handleListProjectIssues returns: the tool result and the Go error
CallToolResult(isError, content) ==
    [returned |-> TRUE, IsError |-> isError, Content |-> content, err |-> NoErr]

\* the text of the result without error: the issues found, in their order
ResultText(found) ==
    IF Len(found) = 0 THEN <<"No issues found on the project board">>
    ELSE <<"Found %d issue(s) on the project board:", Len(found),
           [i \in 1..Len(found) |-> found[i].Number]>>

\* NewMCPServer: the server holds a ProjectManager made by NewProjectManager
InitMCP ==
    /\ NoTUI
    /\ NoController
    /\ NoResolver
    /\ NoStalling
    /\ NoPure
    /\ organization = ORGANIZATION
    /\ projectID = PROJECT_ID
    /\ managerFields = <<>>
    /\ githubClient = TRUE
    /\ remoteFields \in FewSchemas \cup {<<>>, <<FR1>>, <<FS1>>}
    /\ remoteItems = <<>>
    /\ op = "idle"
    /\ pc = "idle"
    /\ NoLocals
    /\ mcpPc = "idle"
    /\ mcpArguments = <<>>
    /\ mcpResult = NoResult

\* handleListProjectIssues up to its call of s.githubClient.GetProjectIssues(perPage)
HandleListProjectIssues ==
    \E arguments \in McpArguments, items \in McpCollections :
        /\ mcpPc = "idle"
        /\ mcpPc' = "GetProjectIssues"
        /\ mcpArguments' = arguments
        /\ mcpResult' = NoResult
        /\ pc = "idle"
        /\ op' = "GetProjectIssues"
        /\ IF githubClient
           THEN pc' = "fields" /\ UNCHANGED returned
           ELSE Fail(ErrClientNil)
        /\ perPage' = PerPageOf(ListProjectIssuesInput(arguments))
        /\ remoteItems' = items
        /\ UNCHANGED <<controller, resolver, stalling, tui, pure, manager, remote, board,
                       fields, resolved, paging, updateIdx, calls>>

\* handleListProjectIssues from the return of GetProjectIssues to its own return
HandleListProjectIssuesReturn ==
    /\ mcpPc = "GetProjectIssues"
    /\ pc = "done"
    /\ mcpPc' = "idle"
    /\ mcpResult' = IF retErr # NoErr
                    THEN CallToolResult(TRUE, <<"Failed to get issues: %v", retErr>>)
                    ELSE CallToolResult(FALSE, ResultText(retVal))
    /\ ReturnToCaller
    /\ UNCHANGED <<controller, resolver, stalling, tui, mcpArguments, pure, manager, remote>>

NextMCP ==
    \/ HandleListProjectIssues
    \/ QueryFieldsOk
    \/ QueryFieldsFail
    \/ ResolveIssues
    \/ QueryPageOk
    \/ QueryPageFail
    \/ HandleListProjectIssuesReturn

SpecMCP == InitMCP /\ [][NextMCP]_vars

-----------------------------------------------------------------------------
(* The resolution of CreateDraftIssue, run twice on one schema and one      *)
(* selector, each run with its own iteration orders of the option maps.     *)

\* a ProjectManager, no tool call and no reconcile
InitResolver ==
    /\ NoTUI
    /\ NoEngine
    /\ NoController
    /\ NoMCP
    /\ NoStalling
    /\ rsFields \in {NormaliseFields(q) : q \in Schemas}
    /\ rsBoard \in Selectors
    /\ rsRuns = <<>>

\* one run of the resolution of CreateDraftIssue: the two helpers and the loop over
\* the fields, with the orders the range loops of the run happen to take
ResolutionRun(oR, oS, oV, oB) ==
    LET r == findK8sReleaseFieldAndLatestVersion(rsFields, oR)
        st == findStatusFieldAndOption(rsFields, DraftMatcher, oS)
        vb == resolveViewAndBoard(rsFields, rsBoard, oV, oB)
    IN  [releaseOrder |-> oR, statusOrder |-> oS, viewOrders |-> oV, boardOrders |-> oB,
         k8sReleaseFieldID |-> r.fieldID, k8sReleaseOptionID |-> r.optionID,
         statusFieldID |-> st.fieldID, statusOptionID |-> st.optionID,
         viewFieldID |-> vb.viewFieldID, viewValueID |-> vb.viewValueID,
         boardFieldID |-> vb.boardFieldID, boardValueID |-> vb.boardValueID]

\* the runs a resolution on rsFields and rsBoard can take
ResolutionRuns ==
    {ResolutionRun(oR, oS, oV, oB) :
        oR \in ReleaseOrders(rsFields), oS \in StatusOrders(rsFields),
        oV \in FieldOrders(rsFields, kwView), oB \in FieldOrders(rsFields, kwBoard)}

\* the resolution is run twice on the same schema and the same selector
ResolveTwice ==
    /\ rsRuns = <<>>
    /\ \E first \in ResolutionRuns, second \in ResolutionRuns : rsRuns' = <<first, second>>
    /\ UNCHANGED <<rsFields, rsBoard, controller, mcp, stalling, tui, engine>>

NextResolver == ResolveTwice

SpecResolver == InitResolver /\ [][NextResolver]_vars

-----------------------------------------------------------------------------
(* GetProjectIssues against a remote that may keep announcing a next page.  *)

\* the answer of a remote that announces a next page without delivering items: the
\* end cursor it names is the one it was asked with, or one further
StallingPage(after, advance) ==
    [Nodes |-> <<>>, HasNextPage |-> TRUE, EndCursor |-> after + advance]

\* NewProjectManager; the remote pages honestly
InitPaging ==
    /\ NoTUI
    /\ NoCollaborators
    /\ NoPure
    /\ organization = ORGANIZATION
    /\ projectID = PROJECT_ID
    /\ managerFields = <<>>
    /\ githubClient = TRUE
    /\ remoteFields \in {<<FS1, FR1>>, <<FR1>>}
    /\ remoteItems = <<>>
    /\ op = "idle"
    /\ pc = "idle"
    /\ NoLocals

\* between two calls the remote changes its way of paging
RemoteTurns ==
    /\ pc = "idle"
    /\ \E endless \in BOOLEAN, stalls \in 0..MaxStalls :
          /\ <<endless, stalls>> # <<remoteEndless, remoteStalls>>
          /\ endless => stalls = 0
          /\ remoteEndless' = endless
          /\ remoteStalls' = stalls
    /\ UNCHANGED <<controller, mcp, resolver, tui, engine>>

\* a variant of the iteration with a cursor-progress check: it returns what it has
\* when the page announces a next page at the cursor it was asked with
QueryPageStallsChecked ==
    /\ pc = "page"
    /\ hasNextPage
    /\ remoteEndless \/ remoteStalls > 0
    /\ Len(calls) < MaxQueries
    /\ \E advance \in {0, 1} :
          LET page == StallingPage(cursor, advance)
              kept == FilterPage(page.Nodes, 1, issues, k8sReleaseFieldID, statusFieldID,
                                 latestVersionStr)
          IN  /\ calls' = Append(calls, ItemsQuery(perPage, cursor, TRUE))
              /\ issues' = kept
              /\ hasNextPage' = page.HasNextPage
              /\ cursor' = page.EndCursor
              /\ IF page.EndCursor = cursor
                 THEN /\ pc' = "done"
                      /\ retErr' = NoErr
                      /\ retVal' = kept
                      /\ retNil' = FALSE
                 ELSE pc' = "page" /\ UNCHANGED returned
    /\ remoteStalls' = IF remoteEndless THEN remoteStalls ELSE remoteStalls - 1
    /\ UNCHANGED <<controller, mcp, resolver, tui, remoteEndless, pure, manager, remote,
                   remoteItems, op, args, fields, resolved, latestVersionStr, updateIdx>>

\* one iteration of "for hasNextPage" whose page announces a next page and holds no
\* item: the loop takes the end cursor and goes on
QueryPageStalls ==
    /\ pc = "page"
    /\ hasNextPage
    /\ remoteEndless \/ remoteStalls > 0
    /\ Len(calls) < MaxQueries
    /\ \E advance \in {0, 1} :
          LET page == StallingPage(cursor, advance)
              kept == FilterPage(page.Nodes, 1, issues, k8sReleaseFieldID, statusFieldID,
                                 latestVersionStr)
          IN  /\ calls' = Append(calls, ItemsQuery(perPage, cursor, TRUE))
              /\ issues' = kept
              /\ hasNextPage' = page.HasNextPage
              /\ cursor' = IF page.HasNextPage THEN page.EndCursor ELSE cursor
    /\ remoteStalls' = IF remoteEndless THEN remoteStalls ELSE remoteStalls - 1
    /\ UNCHANGED <<controller, mcp, resolver, tui, remoteEndless, pure, manager, remote,
                   remoteItems, op, pc, args, fields, resolved, latestVersionStr, updateIdx,
                   returned>>

\* one iteration against the remote once it pages honestly
QueryPageAnswers ==
    /\ ~remoteEndless
    /\ remoteStalls = 0
    /\ QueryPageOk

\* the item query fails
QueryPageBreaks ==
    /\ ~remoteEndless
    /\ QueryPageFail

NextPaging ==
    \/ RemoteTurns
    \/ CallGetProjectIssues
    \/ QueryFieldsOk
    \/ QueryFieldsFail
    \/ ResolveIssues
    \/ QueryPageStalls
    \/ QueryPageAnswers
    \/ QueryPageBreaks
    \/ Return

SpecPaging == InitPaging /\ [][NextPaging]_vars

\* the goroutine that runs GetProjectIssues goes on running: an iteration of the loop
\* that can be taken is taken
SpecPagingFair ==
    SpecPaging /\ WF_vars(QueryPageStalls \/ QueryPageAnswers \/ QueryPageBreaks)

-----------------------------------------------------------------------------
(* The TUI: Run, the auto-refresh ticker and its goroutine, the refresh     *)
(* rounds and the update of the tab list.                                   *)

\* the dashboards of SetRefreshConfig, one tab each
Dashboards == <<"sig-release-master-blocking", "sig-release-master-informing">>

\* BoardHash of the tab of dashboard d
TabOf(d) ==
    IF d = 1 THEN "sig-release-master-blocking#gce-cos-master-default"
    ELSE "sig-release-master-informing#kind-master"

\* what a refresh round meets at a dashboard: FetchTabSummary fails, FetchTabTests
\* fails, the tab has test runs to show, or it has none
FetchOutcomes == {"summary failed", "table failed", "broken", "healthy"}

\* the loop of refreshBrokenTestsAsync: dashboardTabs starts nil, a failed fetch is
\* skipped with continue, a tab with test runs is appended
RECURSIVE CollectTabs(_, _, _)
CollectTabs(outcome, d, dashboardTabs) ==
    IF d > Len(Dashboards) THEN dashboardTabs
    ELSE CollectTabs(outcome, d + 1,
                     IF outcome[d] = "broken" THEN Append(dashboardTabs, TabOf(d))
                     ELSE dashboardTabs)

\* the tabs a round could not fetch
FailedTabs(outcome) ==
    {TabOf(d) : d \in {e \in 1..Len(Dashboards) :
                          outcome[e] \in {"summary failed", "table failed"}}}

\* the tab lists NewMultiWindowTUI is given
InitialTabs == {CollectTabs(o, 1, <<>>) : o \in [1..Len(Dashboards) -> {"broken", "healthy"}]}

\* NewMultiWindowTUI, with or without SetRefreshConfig
InitTUI ==
    /\ NoEngine
    /\ NoCollaborators
    /\ tabs \in InitialTabs
    /\ testgridClient \in BOOLEAN
    /\ refreshTicker = "nil"
    /\ refreshStopCh = "open"
    /\ tickerRunning = FALSE
    /\ tickPending = FALSE
    /\ ticks = 0
    /\ runPc = "Run"
    /\ loopPc = "none"
    /\ started = [tickers |-> 0, loops |-> 0, closes |-> 0]
    /\ refreshing = 0
    /\ updates = <<>>

\* the state outside the TUI
beyondTUI == <<controller, mcp, resolver, stalling, engine>>

\* no goroutine has panicked: the process runs
Alive == loopPc # "panic"

\* Run up to app.Run: startAutoRefresh when a testgrid client is configured
RunStarts ==
    /\ Alive
    /\ runPc = "Run"
    /\ runPc' = "app"
    /\ IF testgridClient /\ refreshTicker = "nil"
       THEN /\ refreshing' = refreshing + 1
            /\ refreshTicker' = "ticker"
            /\ tickerRunning' = TRUE
            /\ loopPc' = "select"
            /\ started' = [started EXCEPT !.tickers = @ + 1, !.loops = @ + 1]
       ELSE UNCHANGED <<refreshing, refreshTicker, tickerRunning, loopPc, started>>
    /\ UNCHANGED <<tabs, testgridClient, refreshStopCh, tickPending, ticks, updates,
                   beyondTUI>>

\* the ticker sends a tick on its channel, which holds one
TickerFires ==
    /\ Alive
    /\ tickerRunning
    /\ ~tickPending
    /\ ticks < MaxTicks
    /\ tickPending' = TRUE
    /\ ticks' = ticks + 1
    /\ UNCHANGED <<tabs, testgridClient, refreshTicker, refreshStopCh, tickerRunning, runPc,
                   loopPc, started, refreshing, updates, beyondTUI>>

\* the goroutine of startAutoRefresh enters its select: the channel operands are
\* evaluated, m.refreshTicker.C first
LoopSelect ==
    /\ Alive
    /\ loopPc = "select"
    /\ loopPc' = IF refreshTicker = "nil" THEN "panic" ELSE "blocked"
    /\ UNCHANGED <<tabs, testgridClient, refreshTicker, refreshStopCh, tickerRunning,
                   tickPending, ticks, runPc, started, refreshing, updates, beyondTUI>>

\* case <-m.refreshTicker.C: refreshBrokenTestsAsync starts a round, and the loop goes
\* round
LoopTakesTick ==
    /\ Alive
    /\ loopPc = "blocked"
    /\ tickPending
    /\ tickPending' = FALSE
    /\ refreshing' = refreshing + 1
    /\ loopPc' = "select"
    /\ UNCHANGED <<tabs, testgridClient, refreshTicker, refreshStopCh, tickerRunning, ticks,
                   runPc, started, updates, beyondTUI>>

\* case <-m.refreshStopCh: return
LoopTakesStop ==
    /\ Alive
    /\ loopPc = "blocked"
    /\ refreshStopCh = "closed"
    /\ loopPc' = "returned"
    /\ UNCHANGED <<tabs, testgridClient, refreshTicker, refreshStopCh, tickerRunning,
                   tickPending, ticks, runPc, started, refreshing, updates, beyondTUI>>

\* the goroutine of refreshBrokenTestsAsync: it fetches every dashboard and queues the
\* update of the UI with the tabs it collected
RefreshFetches ==
    /\ Alive
    /\ refreshing > 0
    /\ refreshing' = refreshing - 1
    /\ \E outcome \in [1..Len(Dashboards) -> FetchOutcomes] :
          updates' = Append(updates,
                            [newTabs |-> CollectTabs(outcome, 1, <<>>),
                             failed |-> FailedTabs(outcome)])
    /\ UNCHANGED <<tabs, testgridClient, refreshTicker, refreshStopCh, tickerRunning,
                   tickPending, ticks, runPc, loopPc, started, beyondTUI>>

\* the function queued by updateBrokenTestsUI runs in the event loop of the
\* application: m.tabs = newTabs
UpdateBrokenTestsUI ==
    /\ Alive
    /\ runPc = "app"
    /\ updates # <<>>
    /\ tabs' = Head(updates).newTabs
    /\ updates' = Tail(updates)
    /\ UNCHANGED <<testgridClient, refreshTicker, refreshStopCh, tickerRunning, tickPending,
                   ticks, runPc, loopPc, started, refreshing, beyondTUI>>

\* app.Run returns; the deferred stopAutoRefresh begins
AppStops ==
    /\ Alive
    /\ runPc = "app"
    /\ runPc' = "stopAutoRefresh"
    /\ UNCHANGED <<tabs, testgridClient, refreshTicker, refreshStopCh, tickerRunning,
                   tickPending, ticks, loopPc, started, refreshing, updates, beyondTUI>>

\* stopAutoRefresh: if m.refreshTicker != nil { Stop(); m.refreshTicker = nil }
StopTicker ==
    /\ Alive
    /\ runPc = "stopAutoRefresh"
    /\ runPc' = "close"
    /\ IF refreshTicker # "nil"
       THEN tickerRunning' = FALSE /\ refreshTicker' = "nil"
       ELSE UNCHANGED <<tickerRunning, refreshTicker>>
    /\ UNCHANGED <<tabs, testgridClient, refreshStopCh, tickPending, ticks, loopPc, started,
                   refreshing, updates, beyondTUI>>

\* stopAutoRefresh: the select that closes refreshStopCh unless it is closed
StopCloses ==
    /\ Alive
    /\ runPc = "close"
    /\ runPc' = "returned"
    /\ IF refreshStopCh = "closed"
       THEN UNCHANGED <<refreshStopCh, started>>
       ELSE /\ refreshStopCh' = "closed"
            /\ started' = [started EXCEPT !.closes = @ + 1]
    /\ UNCHANGED <<tabs, testgridClient, refreshTicker, tickerRunning, tickPending, ticks,
                   loopPc, refreshing, updates, beyondTUI>>

NextTUI ==
    \/ RunStarts
    \/ TickerFires
    \/ LoopSelect
    \/ LoopTakesTick
    \/ LoopTakesStop
    \/ RefreshFetches
    \/ UpdateBrokenTestsUI
    \/ AppStops
    \/ StopTicker
    \/ StopCloses

SpecTUI == InitTUI /\ [][NextTUI]_vars

-----------------------------------------------------------------------------
(* Vocabulary of the properties.                                           *)

\* the schema query of the current call answered and the resolution step is over
Discovered ==
    /\ op \in {"GetProjectIssues", "CreateDraftIssue"}
    /\ pc \notin {"idle", "fields", "resolve"}
    /\ calls # <<>>
    /\ calls[1].kind = "fields"
    /\ calls[1].ok

CallsOfKind(kind) == {i \in 1..Len(calls) : calls[i].kind = kind}

\* the indices of the discovered fields whose name contains kw, case-insensitively
Named(kw) == {i \in 1..Len(fields) : Contains(ToLower(fields[i].Name), kw)}

FirstOf(S) == CHOOSE i \in S : \A j \in S : i <= j

\* the option labels of the first field named kw
LabelsOfFirst(kw) ==
    IF Named(kw) = {} THEN {}
    ELSE DOMAIN fields[FirstOf(Named(kw))].Options

HasVersion(label) == extractVersion(label) # <<>>

NamesFailing(label) ==
    Contains(ToLower(label), kwFailing) \/ Contains(ToLower(label), kwFlaky)

NamesTracking(label) ==
    Contains(ToLower(label), kwIssueTracking) \/ Contains(ToLower(label), kwIssueTrackingSp)

VersionedLabels == {n \in LabelsOfFirst(kwK8sRelease) : HasVersion(n)}

FailingLabels == {n \in LabelsOfFirst(kwStatus) : NamesFailing(n)}

TrackingLabels == {n \in LabelsOfFirst(kwView) : NamesTracking(n)}

\* an identifier that was found and is not empty
NonEmptyID(id) == id # NilID /\ id # ""

-----------------------------------------------------------------------------
(* C1 *)

\* C1 (as claimed): when the discovered schema yields no release option (no field
\* named "k8s release", or no option of that field carries a version) or no status
\* option labelled failing/flaky, GetProjectIssues returns a MissingRequiredField
\* error and issues no item query.
C1_MissingFieldFailsBeforePaging ==
    ( /\ Discovered
      /\ op = "GetProjectIssues"
      /\ \/ VersionedLabels = {}
         \/ FailingLabels = {} )
    => /\ retErr \in {ErrNoLatestVersion, ErrNoFailingStatus}
       /\ CallsOfKind("items") = {}

-----------------------------------------------------------------------------
(* C2 *)

\* the resolved pair of the role an update mutation is sent for
RolePair(fieldName) ==
    CASE fieldName = "K8s Release" -> <<k8sReleaseFieldID, k8sReleaseOptionID>>
      [] fieldName = "View" -> <<viewFieldID, viewValueID>>
      [] fieldName = "Status" -> <<statusFieldID, statusOptionID>>
      [] fieldName = "Testgrid Board" -> <<boardFieldID, boardValueID>>

\* C2 (as claimed): CreateDraftIssue sends the update mutation of a role only if the
\* role's field ID and option ID both resolved to non-empty identifiers; for a role
\* whose field or option was not found no update is sent.
C2_UpdatesOnlyForResolvedRoles ==
    \A i \in CallsOfKind("update") :
        /\ NonEmptyID(RolePair(calls[i].fieldName)[1])
        /\ NonEmptyID(RolePair(calls[i].fieldName)[2])

-----------------------------------------------------------------------------
(* C3 *)

\* the field names of the update mutations sent so far, in the order sent
RECURSIVE UpdateNamesFrom(_)
UpdateNamesFrom(i) ==
    IF i > Len(calls) THEN <<>>
    ELSE (IF calls[i].kind = "update" THEN <<calls[i].fieldName>> ELSE <<>>)
             \o UpdateNamesFrom(i + 1)

\* the field names of the entries of fieldUpdates that pass the loop's guard, in order
RECURSIVE GuardedNamesFrom(_)
GuardedNamesFrom(i) ==
    IF i > Len(fieldUpdates) THEN <<>>
    ELSE (IF UpdateGuard(fieldUpdates[i]) THEN <<fieldUpdates[i].fieldName>> ELSE <<>>)
             \o GuardedNamesFrom(i + 1)

DraftCreated == \E i \in CallsOfKind("addDraft") : calls[i].ok

\* C3: once the draft item was created, CreateDraftIssue returns success, and a failed
\* update mutation does not stop the later ones: when the call returns, every entry of
\* fieldUpdates that passes the guard was sent, in order, whatever the outcome of the
\* earlier updates.
C3_UpdateFailuresAreTolerated ==
    (op = "CreateDraftIssue" /\ pc = "done" /\ DraftCreated)
    => /\ retErr = NoErr
       /\ UpdateNamesFrom(1) = GuardedNamesFrom(1)

\* a call that returned success although all four update mutations failed, the failed
\* release update followed by the status update
C3_Witness ==
    /\ op = "CreateDraftIssue" /\ pc = "done" /\ retErr = NoErr
    /\ UpdateNamesFrom(1) = <<"K8s Release", "View", "Status", "Testgrid Board">>
    /\ \A i \in CallsOfKind("update") : ~calls[i].ok

-----------------------------------------------------------------------------
(* C4 *)

\* C4: if the create-draft mutation fails, CreateDraftIssue returns the error wrapping
\* the remote failure and the failed mutation is the last remote call: no update
\* mutation follows it.
C4_CreateFailureStopsTheCall ==
    \A i \in CallsOfKind("addDraft") :
        ~calls[i].ok => /\ i = Len(calls)
                        /\ pc = "done"
                        /\ retErr = ErrCreateDraft
                        /\ CallsOfKind("update") = {}

\* the create-draft mutation failed after a schema that resolves roles
C4_Witness ==
    /\ op = "CreateDraftIssue" /\ pc = "done"
    /\ \E i \in CallsOfKind("addDraft") : ~calls[i].ok
    /\ NonEmptyID(k8sReleaseOptionID)
    /\ NonEmptyID(statusOptionID)

-----------------------------------------------------------------------------
(* C5 *)

Retrieved == op = "GetProjectIssues" /\ pc = "done" /\ retErr = NoErr

\* the number of pages of k items a collection of n items is served as
PageCount(n, k) == IF n = 0 THEN 1 ELSE (n + k - 1) \div k

Kept(item) == ItemIncluded(item, k8sReleaseFieldID, statusFieldID, latestVersionStr)

IssuesOf(items) == [i \in 1..Len(items) |-> Issue(items[i])]

\* C5: over a collection served as N pages (hasNextPage true on all but the last),
\* GetProjectIssues issues exactly N item queries, each continuing where the page
\* before ended, and returns the matching items of page 1, then page 2, ..., then
\* page N, each page's items in the remote's order.
C5_PagesAreConcatenatedInOrder ==
    Retrieved
    => /\ Cardinality(CallsOfKind("items")) = PageCount(Len(remoteItems), perPage)
       /\ \A i \in CallsOfKind("items") :
              /\ calls[i].ok
              /\ calls[i].first = perPage
              /\ calls[i].after = (i - 2) * perPage
       /\ retVal = IssuesOf(SelectSeq(remoteItems, Kept))

\* three pages of one item, the first and the third with a matching item
C5_Witness ==
    /\ Retrieved
    /\ Cardinality(CallsOfKind("items")) = 3
    /\ remoteItems = <<IT1, IT3, IT2>>
    /\ retVal = <<Issue(IT1), Issue(IT2)>>

-----------------------------------------------------------------------------
(* C6 *)

\* C6: if the item query fails on any page, GetProjectIssues returns the error and a
\* nil issue list, whatever was collected from the pages before.
C6_PageFailureReturnsNothing ==
    \A i \in CallsOfKind("items") :
        ~calls[i].ok => /\ i = Len(calls)
                        /\ pc = "done"
                        /\ retErr = ErrQueryIssues
                        /\ retNil
                        /\ retVal = <<>>

\* the query of a later page failed after matching items had been collected
C6_Witness ==
    /\ op = "GetProjectIssues" /\ pc = "done" /\ retErr = ErrQueryIssues
    /\ Cardinality(CallsOfKind("items")) >= 2
    /\ issues # <<>>

-----------------------------------------------------------------------------
(* C7 *)

\* some single-select value of the item is on the resolved release field and its
\* label's extracted version is the target version
HasReleaseValue(item) ==
    \E j \in 1..Len(item.FieldValues) :
        /\ item.FieldValues[j].Typename = SingleSelectValue
        /\ item.FieldValues[j].FieldID = k8sReleaseFieldID
        /\ extractVersion(item.FieldValues[j].Name) = latestVersionStr

\* some single-select value of the item is on the resolved status field and its label
\* names failing or flaky
HasFailingValue(item) ==
    \E j \in 1..Len(item.FieldValues) :
        /\ item.FieldValues[j].Typename = SingleSelectValue
        /\ item.FieldValues[j].FieldID = statusFieldID
        /\ NamesFailing(item.FieldValues[j].Name)

\* C7: an issue-backed item is in the result of GetProjectIssues if and only if some
\* single-select value of it is on the resolved release field with a label whose
\* extracted version is the target version and some single-select value of it is on
\* the resolved status field with a label naming failing or flaky, wherever the two
\* values stand in the list; the target version is the version of the label of the
\* resolved release option.
C7_IncludedIffReleaseAndStatus ==
    Retrieved
    => /\ \A i \in 1..Len(remoteItems) :
              remoteItems[i].Typename = "Issue"
              => ( (\E k \in 1..Len(retVal) : retVal[k] = Issue(remoteItems[i]))
                   <=> (HasReleaseValue(remoteItems[i]) /\ HasFailingValue(remoteItems[i])) )
       /\ NonEmptyID(k8sReleaseOptionID)
          => \E n \in VersionedLabels :
                 /\ fields[FirstOf(Named(kwK8sRelease))].Options[n] = k8sReleaseOptionID
                 /\ latestVersionStr = extractVersion(n)

\* the item with the status value before the release value is kept; the items with
\* only one of the two are not
C7_Witness ==
    /\ Retrieved
    /\ NonEmptyID(k8sReleaseOptionID) /\ NonEmptyID(statusOptionID)
    /\ remoteItems = <<IT6, IT2, IT3>>
    /\ retVal = <<Issue(IT2)>>

-----------------------------------------------------------------------------
(* C8 *)

\* C8: an item whose content is not an issue (a pull request, a draft item) is never
\* among the issues GetProjectIssues collects or returns, whatever its field values.
C8_OnlyIssuesAreReturned ==
    op = "GetProjectIssues"
    => \A i \in 1..Len(remoteItems) :
           remoteItems[i].Typename # "Issue"
           => /\ \A k \in 1..Len(issues) : issues[k] # Issue(remoteItems[i])
              /\ \A k \in 1..Len(retVal) : retVal[k] # Issue(remoteItems[i])

\* a pull request and a draft item with the field values of a returned issue
C8_Witness ==
    /\ Retrieved
    /\ remoteItems = <<IT4, IT1, IT5>>
    /\ retVal = <<Issue(IT1)>>

-----------------------------------------------------------------------------
(* C9 *)

\* the version of a label as a pair of numbers
Rank(label) ==
    LET parts == SplitDot(extractVersion(label))
    IN  <<Atoi(parts[1]), Atoi(parts[2])>>

NotLower(a, b) ==
    \/ Rank(a)[1] > Rank(b)[1]
    \/ Rank(a)[1] = Rank(b)[1] /\ Rank(a)[2] >= Rank(b)[2]

\* C9: the release field is the first discovered field whose name contains
\* "k8s release" in any case, and the release option is an option of that field whose
\* label carries a version that no other label of the field exceeds; the options
\* {v1.30, v1.31} of "K8s Release" resolve to v1.31.
C9_ReleaseIsFirstFieldHighestVersion ==
    Discovered
    => IF Named(kwK8sRelease) = {}
       THEN k8sReleaseFieldID = NilID /\ k8sReleaseOptionID = NilID
       ELSE LET field == fields[FirstOf(Named(kwK8sRelease))]
                versioned == VersionedLabels
            IN  /\ k8sReleaseFieldID = field.ID
                /\ IF versioned = {}
                   THEN k8sReleaseOptionID = NilID
                   ELSE \E n \in versioned :
                            /\ field.Options[n] = k8sReleaseOptionID
                            /\ \A m \in versioned : NotLower(n, m)
                /\ field.ID = "fR1" => k8sReleaseOptionID = "o131"

\* two release fields: the first one, "K8s Release", decides
C9_Witness ==
    /\ Discovered
    /\ remoteFields = <<FR1, FR2>>
    /\ k8sReleaseFieldID = "fR1"
    /\ k8sReleaseOptionID = "o131"

-----------------------------------------------------------------------------
(* C10 *)

\* C10 (as claimed): the view update of CreateDraftIssue carries the ID of the first
\* discovered field whose name contains "view" and an option of that field whose label
\* names issue tracking, also when a later field's name contains "view" too (stated
\* for the schemas whose first view field has such an option).
C10_ViewUsesFirstField ==
    \A i \in CallsOfKind("update") :
        (calls[i].fieldName = "View" /\ TrackingLabels # {})
        => LET field == fields[FirstOf(Named(kwView))]
           IN  /\ calls[i].fieldID = field.ID
               /\ \E n \in TrackingLabels :
                      calls[i].optionID = SprintS(field.Options[n])

-----------------------------------------------------------------------------
(* C11 *)

\* the option labels of the first field named "board" that the selector contains
BoardLabels == {n \in LabelsOfFirst(kwBoard) : Contains(board, ToLower(n))}

\* C11 (as claimed): the board update of CreateDraftIssue carries the ID of the first
\* discovered field whose name contains "board" and an option of that field whose
\* lower-cased label the selector contains, also when a later field's name contains
\* "board" too (stated for the board updates that carry an ID that was found).
C11_BoardUsesFirstField ==
    \A i \in CallsOfKind("update") :
        (calls[i].fieldName = "Testgrid Board" /\ NonEmptyID(boardValueID))
        => LET field == fields[FirstOf(Named(kwBoard))]
           IN  /\ calls[i].fieldID = field.ID
               /\ \E n \in BoardLabels : calls[i].optionID = SprintS(field.Options[n])

-----------------------------------------------------------------------------
(* C12 *)

\* the part of a selector before its first '#': the board name of "board#tab"
PreHash(selector) ==
    IF \E i \in 1..Len(selector) : selector[i] = "#"
    THEN SubSeq(selector, 1, (CHOOSE i \in 1..Len(selector) :
                                  selector[i] = "#" /\ \A j \in 1..(i - 1) : selector[j] # "#") - 1)
    ELSE selector

\* C12 (as claimed): the option the board update of CreateDraftIssue carries is an
\* option of a board-named field whose lower-cased label occurs in the part of the
\* selector before '#'; a label that occurs only in the tab name is not selected
\* (stated for the board updates that carry an ID that was found).
C12_BoardMatchReadsBoardNameOnly ==
    \A i \in CallsOfKind("update") :
        (calls[i].fieldName = "Testgrid Board" /\ NonEmptyID(boardValueID))
        => \E f \in Named(kwBoard) :
               \E n \in DOMAIN fields[f].Options :
                   /\ calls[i].optionID = SprintS(fields[f].Options[n])
                   /\ Contains(PreHash(board), ToLower(n))

-----------------------------------------------------------------------------
(* C13 *)

NamesDraft(label) ==
    Contains(ToLower(label), kwDrafting) \/ Contains(ToLower(label), kwDraft)

\* the labels of the first status-named field that the matcher of the current method
\* accepts
StatusLabels ==
    {n \in LabelsOfFirst(kwStatus) :
        IF op = "CreateDraftIssue" THEN NamesDraft(n) ELSE NamesFailing(n)}

\* C13: the status field is the first discovered field whose name contains "status"
\* and the status option is an option of that field that the matcher of the method
\* accepts ("drafting"/"draft" for draft creation, "failing"/"flaky" for retrieval);
\* when that field has no such option no option is resolved, whatever the later
\* status-named fields hold; the options {Drafting, Failing} of "Status" resolve to
\* Drafting for draft creation and to Failing for retrieval.
C13_StatusIsFirstFieldOnly ==
    Discovered
    => IF Named(kwStatus) = {}
       THEN statusFieldID = NilID /\ statusOptionID = NilID
       ELSE LET field == fields[FirstOf(Named(kwStatus))]
            IN  /\ statusFieldID = field.ID
                /\ IF StatusLabels = {}
                   THEN statusOptionID = NilID
                   ELSE \E n \in StatusLabels : statusOptionID = field.Options[n]
                /\ field.ID = "fS1"
                   => statusOptionID = IF op = "CreateDraftIssue" THEN "oDrafting"
                                       ELSE "oFailing"

\* the first status-named field has no option at all, the later one has Drafting
C13_Witness ==
    /\ Discovered
    /\ op = "CreateDraftIssue"
    /\ remoteFields = <<FS2, FS1>>
    /\ statusFieldID = "fS2"
    /\ statusOptionID = NilID

-----------------------------------------------------------------------------
(* C14 *)

\* there is a board-named field and no option of a board-named field has a lower-cased
\* label that the selector contains
BoardUnmatched ==
    /\ Named(kwBoard) # {}
    /\ \A f \in Named(kwBoard) :
           \A n \in DOMAIN fields[f].Options : ~Contains(board, ToLower(n))

\* C14 (as claimed): when the selector of CreateDraftIssue matches no board option, the
\* board update is skipped: no update mutation is sent for "Testgrid Board".
C14_UnmatchedBoardSkipsBoardUpdate ==
    (op = "CreateDraftIssue" /\ Discovered /\ BoardUnmatched)
    => \A i \in CallsOfKind("update") : calls[i].fieldName # "Testgrid Board"

-----------------------------------------------------------------------------
(* C15 *)

\* C15: with no client configured (githubClient is nil), each of GetProjectFields,
\* GetProjectIssues and CreateDraftIssue returns the client-unavailable error and a nil
\* result without issuing any query or mutation.
C15_NilClientFailsWithoutRemoteCall ==
    (~githubClient /\ op # "idle")
    => /\ pc = "done"
       /\ retErr = ErrClientNil
       /\ retNil /\ retVal = <<>>
       /\ calls = <<>>

\* a draft creation on a manager without a client has returned
C15_Witness ==
    /\ ~githubClient
    /\ op = "CreateDraftIssue"
    /\ pc = "done"
    /\ retErr = ErrClientNil
    /\ calls = <<>>

-----------------------------------------------------------------------------
(* C16 *)

\* C16: if the schema query fails, the method that issued it returns at once with an
\* error that wraps the remote failure and with no result: the failed query is the only
\* remote call, so GetProjectIssues issues no item query and CreateDraftIssue issues no
\* create-draft and no update mutation.
C16_SchemaFailureStopsTheCall ==
    \A i \in CallsOfKind("fields") :
        ~calls[i].ok
        => /\ calls = <<FieldsQuery(FALSE)>>
           /\ pc = "done"
           /\ retErr = IF op = "GetProjectFields" THEN ErrQueryFields ELSE ErrGetFields
           /\ retNil /\ retVal = <<>>

\* a retrieval whose schema query failed has returned
C16_Witness ==
    /\ op = "GetProjectIssues"
    /\ pc = "done"
    /\ retErr = ErrGetFields
    /\ calls = <<FieldsQuery(FALSE)>>

-----------------------------------------------------------------------------
(* C17 *)

Supported(node) == node.Typename \in {SingleSelect, Iteration}

\* the schema query of the current call answered
SchemaAnswered == calls # <<>> /\ calls[1].kind = "fields" /\ calls[1].ok

\* C17: an answered schema query never fails on a field of an unknown kind: the field
\* list has one entry for each remote entry that is a single-select or an iteration
\* field and none for the others, in the remote order, with the entry's ID, name and
\* (for a single-select field) option labels; GetProjectFields returns that list with
\* no error.
C17_UnknownKindsAreDropped ==
    SchemaAnswered
    => LET kept == SelectSeq(remoteFields, Supported)
       IN  /\ Len(fields) = Len(kept)
           /\ Len(fields) <= Len(remoteFields)
           /\ \A i \in 1..Len(kept) :
                  /\ fields[i].ID = kept[i].ID
                  /\ fields[i].Name = kept[i].Name
                  /\ DOMAIN fields[i].Options =
                         IF kept[i].Typename = SingleSelect
                         THEN {kept[i].Options[j].Name : j \in 1..Len(kept[i].Options)}
                         ELSE {}
           /\ op = "GetProjectFields"
              => pc = "done" /\ retErr = NoErr /\ ~retNil /\ retVal = fields

\* a field of an unknown kind before an iteration field: only the second is returned
C17_Witness ==
    /\ op = "GetProjectFields"
    /\ pc = "done"
    /\ retErr = NoErr
    /\ remoteFields = <<FU, FS2>>
    /\ Len(retVal) = 1
    /\ retVal[1].ID = "fS2"

-----------------------------------------------------------------------------
(* C18 *)

\* C18: no call caches the schema or leaves state behind.  No step changes the
\* ProjectManager (organization, projectID, fields map, client); between two calls no
\* local of the last call is left; every GetProjectIssues and CreateDraftIssue call that
\* passes the client check issues its own schema query before anything else; and the
\* fields a call works on are those the remote holds during that call, whatever the
\* remote held during the calls before.
C18_NoStateSurvivesACall ==
    /\ [][UNCHANGED <<manager, githubClient>>]_vars
    /\ [](pc = "idle" => NoLocals)
    /\ []((op \in {"GetProjectIssues", "CreateDraftIssue"} /\ pc \notin {"idle", "fields"}
              /\ githubClient)
          => (calls # <<>> /\ calls[1].kind = "fields"))
    /\ [](SchemaAnswered => fields = NormaliseFields(remoteFields))

\* a draft creation that issued its own schema query and four updates has returned,
\* and the manager is as it was constructed
C18_Witness ==
    /\ op = "CreateDraftIssue"
    /\ pc = "done"
    /\ retErr = NoErr
    /\ calls[1] = FieldsQuery(TRUE)
    /\ Len(calls) = 6
    /\ fields = NormaliseFields(remoteFields)
    /\ managerFields = <<>>
    /\ organization = ORGANIZATION /\ projectID = PROJECT_ID

-----------------------------------------------------------------------------
(* C19 *)

Compared == op = "compareVersions" /\ pc = "done"

\* the positions of the dots of a version
DotsOf(v) == {i \in 1..Len(v) : v[i] = "."}

SegmentCount(v) == Cardinality(DotsOf(v)) + 1

\* the k-th piece of a version between its dots
SegmentOf(v, k) ==
    LET before == {i \in DotsOf(v) : Cardinality({j \in DotsOf(v) : j <= i}) = k - 1}
        after == {i \in DotsOf(v) : Cardinality({j \in DotsOf(v) : j <= i}) = k}
        from == IF before = {} THEN 1 ELSE (CHOOSE i \in before : TRUE) + 1
        to == IF after = {} THEN Len(v) ELSE (CHOOSE i \in after : TRUE) - 1
    IN  SubSeq(v, from, to)

\* a version of one or more segments, each a non-empty run of digits
WellFormed(v) ==
    \A k \in 1..SegmentCount(v) :
        SegmentOf(v, k) # <<>> /\ \A i \in 1..Len(SegmentOf(v, k)) : IsDigit(SegmentOf(v, k)[i])

\* the digits of the k-th segment without its leading zeros; nothing for a missing
\* segment, which so counts as 0
Significant(v, k) ==
    IF k > SegmentCount(v) THEN <<>>
    ELSE LET seg == SegmentOf(v, k)
             nonzero == {i \in 1..Len(seg) : seg[i] # "0"}
         IN  IF nonzero = {} THEN <<>>
             ELSE SubSeq(seg, CHOOSE i \in nonzero : \A j \in nonzero : i <= j, Len(seg))

\* the number a is less than the number b, both written without leading zeros
NumberLess(a, b) ==
    \/ Len(a) < Len(b)
    \/ /\ Len(a) = Len(b)
       /\ \E i \in 1..Len(a) :
              /\ DigitVal(a[i]) < DigitVal(b[i])
              /\ \A j \in 1..(i - 1) : a[j] = b[j]

\* the order of two versions by the first segment in which their numbers differ
ExpectedOrder(a, b) ==
    LET n == IF SegmentCount(a) > SegmentCount(b) THEN SegmentCount(a) ELSE SegmentCount(b)
        differ == {k \in 1..n : Significant(a, k) # Significant(b, k)}
    IN  IF differ = {} THEN 0
        ELSE LET k == CHOOSE i \in differ : \A j \in differ : i <= j
             IN  IF NumberLess(Significant(a, k), Significant(b, k)) THEN -1 ELSE 1

\* C19: compareVersions returns -1, 0 or 1 only, and on two versions made of runs of
\* digits between dots the result is decided by the first segment, from the left, in
\* which their numbers differ, a missing segment counting as 0: "1.30" against "1.31"
\* is -1, "2.0" against "1.9" is 1, "1.5" against "1.5" is 0, "1" against "1.0" is 0.
C19_CompareVersionsOrdersBySegments ==
    Compared
    => /\ compareRet \in {-1, 0, 1}
       /\ (WellFormed(v1) /\ WellFormed(v2)) => compareRet = ExpectedOrder(v1, v2)
       /\ (v1 = <<"1", ".", "3", "0">> /\ v2 = <<"1", ".", "3", "1">>) => compareRet = -1
       /\ (v1 = <<"2", ".", "0">> /\ v2 = <<"1", ".", "9">>) => compareRet = 1
       /\ (v1 = <<"1", ".", "5">> /\ v2 = <<"1", ".", "5">>) => compareRet = 0
       /\ (v1 = <<"1">> /\ v2 = <<"1", ".", "0">>) => compareRet = 0

\* a version with a segment the other one lacks: "1.1" is above "1"
C19_Witness ==
    /\ Compared
    /\ v1 = <<"1", ".", "1">>
    /\ v2 = <<"1">>
    /\ compareRet = 1

-----------------------------------------------------------------------------
(* C20 *)

Extracted == op = "extractVersion" /\ pc = "done"

\* the dots of a text that stand between two digits
VersionDots(t) ==
    {d \in 2..(Len(t) - 1) : t[d] = "." /\ IsDigit(t[d - 1]) /\ IsDigit(t[d + 1])}

\* the run of digits that ends before position d, and the one that starts after it
RunBefore(t, d) ==
    SubSeq(t, CHOOSE a \in 1..(d - 1) :
                  /\ \A i \in a..(d - 1) : IsDigit(t[i])
                  /\ a = 1 \/ ~IsDigit(t[a - 1]),
           d - 1)

RunAfter(t, d) ==
    SubSeq(t, d + 1,
           CHOOSE e \in (d + 1)..Len(t) :
               /\ \A i \in (d + 1)..e : IsDigit(t[i])
               /\ e = Len(t) \/ ~IsDigit(t[e + 1]))

\* "<major>.<minor>" of the first occurrence of digits, a dot, digits; empty when the
\* text has none
ExpectedVersion(t) ==
    IF VersionDots(t) = {} THEN <<>>
    ELSE LET d == CHOOSE i \in VersionDots(t) : \A j \in VersionDots(t) : i <= j
         IN  RunBefore(t, d) \o <<".">> \o RunAfter(t, d)

\* C20: extractVersion returns the first occurrence of digits, a dot and digits in the
\* text as "<major>.<minor>", without a "v" before it and without what follows the
\* minor number, and the empty string when the text has no such occurrence; "v1.32",
\* "1.32" and "1.32.1" all give "1.32".
C20_ExtractVersionGivesMajorMinor ==
    Extracted
    => /\ extractRet = ExpectedVersion(text)
       /\ text \in { <<"v", "1", ".", "3", "2">>, <<"1", ".", "3", "2">>,
                     <<"1", ".", "3", "2", ".", "1">> }
          => extractRet = <<"1", ".", "3", "2">>

\* a version after a "v" and before a second dot
C20_Witness ==
    /\ Extracted
    /\ text = <<"v", "1", ".", "2">>
    /\ extractRet = <<"1", ".", "2">>


-----------------------------------------------------------------------------
(* Claims about the Dashboard controller.                                  *)

\* a step of the controller that writes the status or records a metric
ControllerWrites ==
    \/ statusDashboardSummary' # statusDashboardSummary
    \/ statusLastUpdate' # statusLastUpdate
    \/ dashboardStateGauge' # dashboardStateGauge
    \/ (now' = now /\ recordedTabs' # {})

\* C21: the controller writes the status and records metrics only in a reconcile
\* whose fetched summaries differ from the stored ones and that, once LastUpdate is
\* set, comes at least one minute after the previous update; a reconcile with
\* unchanged summaries or within the minute writes nothing and records nothing.
C21_RefreshOnlyOnChangeAndAfterAMinute ==
    [][ControllerWrites =>
          /\ dashboardSummaries' # statusDashboardSummary
          /\ statusLastUpdate.isZero \/ now - statusLastUpdate.time >= refreshInterval
          /\ statusDashboardSummary' = dashboardSummaries'
          /\ statusLastUpdate' = TimeAt(now)]_vars

\* a reconcile within the minute of the last update fetched other summaries than the
\* stored ones and was skipped, and an earlier one had refreshed and recorded metrics
C21_Witness ==
    /\ lastReconcile = "skipped"
    /\ dashboardSummaries # statusDashboardSummary
    /\ ~statusLastUpdate.isZero
    /\ statusLastUpdate.time >= refreshInterval
    /\ now - statusLastUpdate.time < refreshInterval
    /\ DOMAIN dashboardStateGauge # {}


\* the series of key "state" of one tab that read 1
ActiveStateSeries(dashboard, tab) ==
    {s \in DOMAIN dashboardStateGauge :
        /\ s.dashboard = dashboard
        /\ s.tab = tab
        /\ s.key = "state"
        /\ dashboardStateGauge[s] = 1}

\* C22: testgrid_dashboard_state reads 1 for the state a tab is in and 0 for a state
\* it is not in: once a tab was recorded in another state, the series of its old
\* state no longer reads 1, so at most one state series of a tab reads 1.
C22_OnlyTheActiveStateReadsOne ==
    \A s \in DOMAIN dashboardStateGauge :
        Cardinality(ActiveStateSeries(s.dashboard, s.tab)) <= 1


-----------------------------------------------------------------------------
(* Claims about the MCP server.                                            *)

\* the perPage of the arguments of the tool call is absent, zero or negative
NoPositivePerPage == mcpArguments = <<>> \/ mcpArguments[1] <= 0

\* the perPage the handler is to call GetProjectIssues with
ExpectedPerPage == IF NoPositivePerPage THEN 100 ELSE mcpArguments[1]

\* C23: the handler of list_project_issues calls GetProjectIssues with perPage 100
\* when the input perPage is absent, zero or negative and with the input value
\* otherwise; when the retrieval fails it returns a tool result with IsError true and
\* a nil Go error.
C23_DefaultPerPageAndToolError ==
    /\ [](mcpPc = "GetProjectIssues" =>
             /\ op = "GetProjectIssues"
             /\ perPage = ExpectedPerPage
             /\ \A i \in CallsOfKind("items") : calls[i].first = ExpectedPerPage)
    /\ [][(mcpPc = "GetProjectIssues" /\ mcpPc' = "idle") =>
             /\ mcpResult'.returned
             /\ mcpResult'.err = NoErr
             /\ mcpResult'.IsError = (retErr # NoErr)]_vars

\* a call without a positive perPage whose retrieval failed at an item query has
\* returned
C23_Witness ==
    /\ mcpPc = "idle"
    /\ NoPositivePerPage
    /\ mcpResult.returned
    /\ mcpResult.IsError
    /\ mcpResult.Content = <<"Failed to get issues: %v", ErrQueryIssues>>


-----------------------------------------------------------------------------
(* Claims about the remote calls and the resolution of the engine.         *)

\* the place of an update in the fixed order release, view, status, board
UpdatePlace(fieldName) ==
    CASE fieldName = "K8s Release" -> 1
      [] fieldName = "View" -> 2
      [] fieldName = "Status" -> 3
      [] fieldName = "Testgrid Board" -> 4
      [] OTHER -> 0

\* C24: within one CreateDraftIssue the remote calls come one after the other in a
\* fixed order: one schema query, then one create-draft mutation, then the update
\* mutations in the order release, view, status, board, each at most once, so at
\* most four updates.
C24_DraftCallsAreOrdered ==
    op = "CreateDraftIssue" =>
        /\ Len(calls) >= 1 => calls[1].kind = "fields"
        /\ Len(calls) >= 2 => calls[2].kind = "addDraft"
        /\ \A i \in 3..Len(calls) :
              /\ calls[i].kind = "update"
              /\ UpdatePlace(calls[i].fieldName) >= 1
              /\ \A j \in 3..(i - 1) :
                    UpdatePlace(calls[j].fieldName) < UpdatePlace(calls[i].fieldName)
        /\ Cardinality(CallsOfKind("update")) <= 4
        /\ Len(calls) >= 2 => calls[1].ok
        /\ Len(calls) >= 3 => calls[2].ok

\* a CreateDraftIssue has returned after the schema query, the create-draft and four
\* updates, the view and the status update sent with resolved IDs
C24_Witness ==
    /\ op = "CreateDraftIssue"
    /\ pc = "done"
    /\ Len(calls) = 6
    /\ AssertsAsID(calls[4].fieldID)
    /\ AssertsAsID(calls[5].fieldID)
    /\ calls[4].optionID # SprintS(NilID)
    /\ calls[5].optionID # SprintS(NilID)


\* the option IDs of the discovered fields that carry the ID fieldID
OptionIDsOf(fieldID) ==
    UNION {{fields[i].Options[n] : n \in DOMAIN fields[i].Options} :
              i \in {j \in 1..Len(fields) : fields[j].ID = fieldID}}

\* C26: in every update mutation of CreateDraftIssue the option ID sent is the ID of
\* an option of the field whose ID is sent in the same mutation, for every schema,
\* also those with several fields whose names contain "view" or "board" (stated for
\* the updates whose field ID and option ID were both found in the schema).
C26_UpdateOptionBelongsToField ==
    op = "CreateDraftIssue" =>
        \A i \in CallsOfKind("update") :
            (AssertsAsID(calls[i].fieldID) /\ calls[i].optionID # SprintS(NilID))
            => calls[i].optionID \in {SprintS(id) : id \in OptionIDsOf(calls[i].fieldID)}


\* the indices of the fields of a resolution run on its own whose name contains kw
RsNamed(kw) == {i \in 1..Len(rsFields) : Contains(ToLower(rsFields[i].Name), kw)}

\* the positions in order of the labels that carry a version no label of order exceeds
TopPositions(order) ==
    {i \in 1..Len(order) :
        /\ HasVersion(order[i])
        /\ \A j \in 1..Len(order) : HasVersion(order[j]) => NotLower(order[i], order[j])}

\* C25: when several options of the release field tie for the highest version, the
\* resolver keeps the first one seen: the option chosen is the first, in the order the
\* options were visited, of those with the highest version.
C25_TieKeepsFirstSeen ==
    \A k \in 1..Len(rsRuns) :
        LET order == rsRuns[k].releaseOrder
        IN  (RsNamed(kwK8sRelease) # {} /\ TopPositions(order) # {})
            => rsRuns[k].k8sReleaseOptionID =
                   rsFields[FirstOf(RsNamed(kwK8sRelease))].Options[
                       order[FirstOf(TopPositions(order))]]

\* the labels 1.9 and v1.09 of "k8s release old" tie; a run that visited v1.09 first
\* chose it and a run that visited 1.9 first chose that
C25_Witness ==
    /\ Len(rsRuns) = 2
    /\ Cardinality(TopPositions(rsRuns[1].releaseOrder)) = 2
    /\ rsRuns[1].releaseOrder[1] = <<"v", "1", ".", "0", "9">>
    /\ rsRuns[1].k8sReleaseOptionID = "o109"
    /\ rsRuns[2].releaseOrder[1] = <<"1", ".", "9">>
    /\ rsRuns[2].k8sReleaseOptionID = "o19"


\* the four (fieldID, optionID) pairs a run resolved
PairsOf(run) ==
    <<run.k8sReleaseFieldID, run.k8sReleaseOptionID, run.viewFieldID, run.viewValueID,
      run.statusFieldID, run.statusOptionID, run.boardFieldID, run.boardValueID>>

\* C28: the resolution is deterministic: two runs on the same schema and the same
\* selector resolve the same four (fieldID, optionID) pairs whatever the orders their
\* loops visit the options of a field in.
C28_ResolutionIsDeterministic ==
    \A j, k \in 1..Len(rsRuns) : PairsOf(rsRuns[j]) = PairsOf(rsRuns[k])


\* the item queries of the current retrieval that were asked with the cursor the
\* query before them was asked with
RepeatedQueries ==
    {i \in CallsOfKind("items") : (i - 1) \in CallsOfKind("items")
                                   /\ calls[i].after = calls[i - 1].after}

\* C27: GetProjectIssues terminates whenever the remote eventually answers an item
\* query with hasNextPage=false or with an error; it has no page limit and no
\* cursor-progress check, so as long as the remote answers hasNextPage=true, also
\* with an unchanged end cursor, the loop goes on and the method does not return.
C27_PagingEndsOnlyWhenTheRemoteEndsIt ==
    /\ (pc = "page" /\ ~remoteEndless) ~> (pc = "done")
    /\ [][(pc = "page" /\ remoteEndless) => (pc' = "page" /\ hasNextPage')]_vars
    /\ [][(pc = "page" /\ pc' = "done") =>
             \/ retErr' = ErrQueryIssues
             \/ ~RemotePage(remoteItems, perPage, cursor).HasNextPage]_vars

\* a retrieval against a remote that always announces a next page is still in its loop
\* after it asked MaxQueries - 1 times, several times with the same cursor
C27_Witness ==
    /\ remoteEndless
    /\ op = "GetProjectIssues"
    /\ pc = "page"
    /\ Len(calls) = MaxQueries
    /\ Cardinality(RepeatedQueries) >= 2


-----------------------------------------------------------------------------
(* Claims about the TUI.                                                   *)

\* C29: the auto-refresh of the TUI is safe under every interleaving of Run and the
\* loop goroutine: at most one ticker is made and one loop goroutine started,
\* refreshStopCh is closed at most once, and the loop goroutine never reads through
\* refreshTicker once it is nil.
C29_AutoRefreshLifecycleIsSafe ==
    /\ started.tickers <= 1
    /\ started.loops <= 1
    /\ started.closes <= 1
    /\ loopPc # "panic"

\* C30: a refresh round in which fetches failed keeps the tabs already displayed: the
\* update of the tab list drops no displayed tab whose fetch failed in the round, so
\* the list is not emptied when every fetch fails.
C30_FailedFetchKeepsDisplayedTabs ==
    [][(updates # <<>> /\ tabs' # tabs) =>
          \A i \in 1..Len(tabs) :
              tabs[i] \in Head(updates).failed => \E j \in 1..Len(tabs') : tabs'[j] = tabs[i]]_vars

=============================================================================
